---- MODULE Spec2Model ----
(***************************************************************************)
(* A model of the Scheme interpreter of markkurossi/scm: the symbol table  *)
(* (Intern, Global, SetGlobal, DefineBuiltin), the bytecode VM's Execute   *)
(* loop, and the AST -> bytecode lowering of scheme.go.                    *)
(***************************************************************************)
EXTENDS Integers, Sequences, FiniteSets, TLC

VARIABLES
    symbols,    \* Scheme.symbols / VM.symbols: name -> *Identifier
    nextId,     \* the next fresh Identifier object (pointer identity)
    interned,   \* history: the <<name, object>> pairs Intern has returned
    lastOp,     \* the last embedder call: its arguments, result and error
    vm,         \* the VM of part_000: code, pc, fp, accu, stack, state
    native,     \* history: the native invocations made by VM.Execute
    run,        \* the compile-and-run machine of the AST lowering
    scm,        \* the interpreter NewWithParams builds: runtime and Eval
    call,       \* a call of a library function: arguments and result
    runner      \* the test runner of testsuite/test.scm: its counters

vars == <<symbols, nextId, interned, lastOp, vm, native, run, scm, call,
          runner>>

(***************************************************************************)
(* Values.  Every value is a record with a tag t, so that any two values   *)
(* can be compared.                                                        *)
(***************************************************************************)
Nil == [t |-> "nil"]

Boolean(b) == [t |-> "bool", b |-> b]

Number(n) == [t |-> "num", n |-> n]

\* math.MaxInt, cut to 32 bits.
MaxInt == 2147483647

\* &Lambda{Impl: &LambdaImpl{Name, Args{Min, Max}, Native}}
Lambda(name, min, max, nat) ==
    [t |-> "lambda", Name |-> name, Min |-> min, Max |-> max, Native |-> nat]

(***************************************************************************)
(* The symbol table.                                                       *)
(***************************************************************************)
FlagDefined == "Defined"

FlagConst == "Const"

FlagFinal == "Final"

AllFlags == {FlagDefined, FlagConst, FlagFinal}

Names == {"a", "b", "c"}

UserValues == {Nil, Number(1)}

\* &Identifier{Name: val}: a new object, no global value, no flags.
NewIdentifier(id) ==
    [id |-> id, Global |-> Nil, GlobalType |-> "nil", Flags |-> {}]

\* Intern as a function of the table: the table after the call, the
\* identifier object returned and the allocator.  An absent name gets a new
\* object; a present name is returned as it is.
InternMutantFresh(syms, name, fresh) ==
    [symbols |-> [n \in DOMAIN syms \cup {name} |->
                    IF n = name THEN NewIdentifier(fresh) ELSE syms[n]],
     id |-> fresh,
     nextId |-> fresh + 1]

InternOf(syms, name, fresh) ==
    IF name \notin DOMAIN syms
    THEN [symbols |-> [n \in DOMAIN syms \cup {name} |->
                         IF n = name THEN NewIdentifier(fresh) ELSE syms[n]],
          id |-> fresh,
          nextId |-> fresh + 1]
    ELSE [symbols |-> syms, id |-> syms[name].id, nextId |-> fresh]

\* The record of an embedder call: the operation, the name and value given,
\* the names it may define, the error or panic, and what it returned.
NoOp == [op |-> "none", name |-> "", val |-> Nil, defs |-> {}, err |-> FALSE,
         retId |-> 0, retVal |-> Nil]

\* A panic ends the program.
Alive == lastOp.op # "panic"

\* VM.Intern / Scheme.Intern called by the embedder.
Intern(name) ==
    LET r == InternOf(symbols, name, nextId) IN
    /\ Alive
    /\ symbols' = r.symbols
    /\ nextId' = r.nextId
    /\ interned' = interned \cup {<<name, r.id>>}
    /\ lastOp' = [NoOp EXCEPT !.op = "Intern", !.name = name, !.retId = r.id]
    /\ UNCHANGED <<vm, native, run, scm, call, runner>>

\* Scheme.Global as a function of the table: <<value, error>>.
GlobalOf(syms, name) ==
    IF name \notin DOMAIN syms \/ FlagDefined \notin syms[name].Flags
    THEN [val |-> Nil, err |-> TRUE]
    ELSE [val |-> syms[name].Global, err |-> FALSE]

Global(name) ==
    LET r == GlobalOf(symbols, name) IN
    /\ Alive
    /\ lastOp' = [NoOp EXCEPT !.op = "Global", !.name = name,
                              !.retVal = r.val, !.err = r.err]
    /\ UNCHANGED <<symbols, nextId, interned, vm, native, run, scm, call, runner>>

\* Scheme.SetGlobal as a function of the table.
SetGlobalMutantNoCheck(syms, name, value, fresh) ==
    LET r == InternOf(syms, name, fresh) IN
    [symbols |-> [r.symbols EXCEPT
                    ![name].Flags = @ \cup {FlagDefined},
                    ![name].Global = value],
     nextId |-> r.nextId, err |-> FALSE]

SetGlobalMutantOther(syms, name, value, fresh) ==
    LET r == InternOf(syms, name, fresh) IN
    IF FlagConst \in r.symbols[name].Flags
    THEN [symbols |-> r.symbols, nextId |-> r.nextId, err |-> TRUE]
    ELSE [symbols |-> [n \in DOMAIN r.symbols |->
                         [r.symbols[n] EXCEPT
                            !.Flags = @ \cup {FlagDefined},
                            !.Global = value]],
          nextId |-> r.nextId, err |-> FALSE]

SetGlobalOf(syms, name, value, fresh) ==
    LET r == InternOf(syms, name, fresh) IN
    IF FlagConst \in r.symbols[name].Flags
    THEN [symbols |-> r.symbols, nextId |-> r.nextId, err |-> TRUE]
    ELSE [symbols |-> [r.symbols EXCEPT
                         ![name].Flags = @ \cup {FlagDefined},
                         ![name].Global = value],
          nextId |-> r.nextId, err |-> FALSE]

SetGlobal(name, value) ==
    LET r == SetGlobalOf(symbols, name, value, nextId) IN
    /\ Alive
    /\ symbols' = r.symbols
    /\ nextId' = r.nextId
    /\ lastOp' = [NoOp EXCEPT !.op = "SetGlobal", !.name = name,
                              !.val = value, !.defs = {name},
                              !.err = r.err]
    /\ UNCHANGED <<interned, vm, native, run, scm, call, runner>>

(***************************************************************************)
(* Builtins.  An argument declaration is the string types.Parse reads:     *)
(* "[name]" is optional, "name..." is a rest argument; it is kept here as  *)
(* the two marks the regular expression extracts.                          *)
(***************************************************************************)
Fixed == "fixed"

Optional == "optional"

Rest == "rest"

ArgFixed == [bracket |-> FALSE, dots |-> FALSE]

ArgOptional == [bracket |-> TRUE, dots |-> FALSE]

ArgRest == [bracket |-> FALSE, dots |-> TRUE]

ArgOptionalRest == [bracket |-> TRUE, dots |-> TRUE]

\* types.Parse: the kind of an argument declaration.
ParseKind(arg) ==
    IF arg.dots THEN Rest ELSE IF arg.bracket THEN Optional ELSE Fixed

RECURSIVE CountKind(_, _)
CountKind(args, kind) ==
    IF args = <<>> THEN 0
    ELSE (IF ParseKind(Head(args)) = kind THEN 1 ELSE 0)
         + CountKind(Tail(args), kind)

BuiltinArgsMutantMinAll(builtin) ==
    [Min |-> Len(builtin.Args),
     Max |-> IF CountKind(builtin.Args, Rest) > 0
             THEN MaxInt ELSE Len(builtin.Args)]

\* The loop of DefineBuiltin over builtin.Args: Args{Min, Max}.
BuiltinArgs(builtin) ==
    [Min |-> CountKind(builtin.Args, Fixed),
     Max |-> IF CountKind(builtin.Args, Rest) > 0
             THEN MaxInt ELSE Len(builtin.Args)]

\* The loop of DefineBuiltin over builtin.Aliases.
RECURSIVE DefineAliases(_, _, _, _)
DefineAliases(st, builtin, aliases, type) ==
    IF aliases = <<>> THEN st
    ELSE LET alias == Head(aliases)
             r == InternOf(st.symbols, alias, st.nextId)
             args == BuiltinArgs(builtin)
         IN DefineAliases(
                [symbols |-> [r.symbols EXCEPT
                    ![alias].GlobalType = type,
                    ![alias].Global =
                        Lambda(alias, args.Min, args.Max, builtin.Native),
                    ![alias].Flags = @ \cup {FlagDefined}],
                 nextId |-> r.nextId],
                builtin, Tail(aliases), type)

\* Scheme.DefineBuiltin as a function of the table (builtin.Return is set).
DefineBuiltinOf(syms, builtin, fresh) ==
    LET args == BuiltinArgs(builtin)
        lambda == Lambda(builtin.Name, args.Min, args.Max, builtin.Native)
        r == InternOf(syms, builtin.Name, fresh)
        st == [symbols |-> [r.symbols EXCEPT
                   ![builtin.Name].GlobalType = "lambda",
                   ![builtin.Name].Global = lambda,
                   ![builtin.Name].Flags =
                        (@ \cup {FlagDefined}) \cup builtin.Flags],
               nextId |-> r.nextId]
    IN DefineAliases(st, builtin, builtin.Aliases,
                     st.symbols[builtin.Name].GlobalType)

\* The builtins the embedder registers.
Builtins ==
    { [Name |-> "a", Args |-> <<ArgFixed, ArgOptional>>, Return |-> "any",
       Native |-> "na", Flags |-> {}, Aliases |-> <<>>],
      [Name |-> "b", Args |-> <<ArgFixed, ArgOptionalRest>>, Return |-> "any",
       Native |-> "nb", Flags |-> {FlagConst}, Aliases |-> <<"c">>],
      [Name |-> "c", Args |-> <<ArgRest>>, Return |-> "any",
       Native |-> "nc", Flags |-> {FlagFinal}, Aliases |-> <<>>],
      [Name |-> "a", Args |-> <<>>, Return |-> "nil",
       Native |-> "nd", Flags |-> {}, Aliases |-> <<>>] }

\* Scheme.DefineBuiltin: panics when no return type is declared.
DefineBuiltin(builtin) ==
    /\ Alive
    /\ IF builtin.Return = "nil"
       THEN /\ lastOp' = [NoOp EXCEPT !.op = "panic", !.name = builtin.Name,
                                      !.err = TRUE]
            /\ UNCHANGED <<symbols, nextId, scm, call, runner>>
       ELSE LET r == DefineBuiltinOf(symbols, builtin, nextId) IN
            /\ symbols' = r.symbols
            /\ nextId' = r.nextId
            /\ lastOp' = [NoOp EXCEPT
                    !.op = "DefineBuiltin", !.name = builtin.Name,
                    !.defs = {builtin.Name} \cup
                        {builtin.Aliases[i] : i \in DOMAIN builtin.Aliases}]
    /\ UNCHANGED <<interned, vm, native, run, scm, call, runner>>

\* The values held fixed while the symbol table is exercised on its own.
VmIdle == [state |-> "idle"]

RunIdle == [state |-> "idle"]

ScmIdle == [state |-> "idle"]

CallIdle == [fn |-> "none"]

RunnerIdle == [state |-> "none"]

InitSym ==
    /\ runner = RunnerIdle
    /\ scm = ScmIdle
    /\ call = CallIdle
    /\ symbols = <<>>
    /\ nextId = 1
    /\ interned = {}
    /\ lastOp = NoOp
    /\ vm = VmIdle
    /\ native = <<>>
    /\ run = RunIdle

NextSym ==
    \/ \E name \in Names : Intern(name)
    \/ \E name \in Names : Global(name)
    \/ \E name \in Names, value \in UserValues : SetGlobal(name, value)
    \/ \E builtin \in Builtins : DefineBuiltin(builtin)

SpecSym == InitSym /\ [][NextSym]_vars

(***************************************************************************)
(* Claims about the symbol table, checked under SpecSym.                   *)
(***************************************************************************)

\* C1: interning is idempotent.  Of all the Intern calls made so far, two
\* with the same name returned the same identifier object and two with
\* different names returned different objects; and an Intern call on a name
\* that is already interned leaves that symbol's object, global value and
\* flags (and every other symbol) as they were.
C1_InternIdempotent ==
    /\ [](\A p, q \in interned : (p[1] = q[1]) <=> (p[2] = q[2]))
    /\ [][lastOp'.op = "Intern" =>
            \A n \in DOMAIN symbols : symbols'[n] = symbols[n]]_vars

\* C1 witness: Intern has returned for a name that was already interned and
\* defined, after another name was interned too.
C1_Witness ==
    /\ lastOp.op = "Intern"
    /\ FlagDefined \in symbols[lastOp.name].Flags
    /\ symbols[lastOp.name].Global # Nil
    /\ \E p \in interned : p[1] # lastOp.name

\* The step is a successful SetGlobal, or a DefineBuiltin, that defines n.
Defines(n) ==
    /\ lastOp'.op \in {"SetGlobal", "DefineBuiltin"}
    /\ ~lastOp'.err
    /\ n \in lastOp'.defs

\* C2: SetGlobal/Global round trip.  Right after SetGlobal(name, v) has
\* returned without error, Global(name) returns v without error; what
\* Global(n) returns for a defined symbol n changes only in a step that is
\* a successful SetGlobal or a builtin definition of n; and a SetGlobal
\* call changes the value and flags of no symbol but its own.
C2_SetGlobalRoundTrip ==
    /\ []((lastOp.op = "SetGlobal" /\ ~lastOp.err) =>
            GlobalOf(symbols, lastOp.name) = [val |-> lastOp.val, err |-> FALSE])
    /\ [][\A n \in Names :
            (~GlobalOf(symbols, n).err /\ ~Defines(n)) =>
                GlobalOf(symbols', n) = GlobalOf(symbols, n)]_vars
    /\ [][lastOp'.op = "SetGlobal" =>
            \A n \in DOMAIN symbols \ {lastOp'.name} :
                symbols'[n] = symbols[n]]_vars

\* C2 witness: Global has returned, without error, a value that only a
\* SetGlobal can have stored, while another symbol holds a builtin.
C2_Witness ==
    /\ lastOp.op = "Global"
    /\ ~lastOp.err
    /\ lastOp.retVal = Number(1)
    /\ \E n \in DOMAIN symbols : symbols[n].Global.t = "lambda"

\* The step is a SetGlobal call on a symbol that carried flag f before it.
SetGlobalOnFlag(f) ==
    /\ lastOp'.op = "SetGlobal"
    /\ lastOp'.name \in DOMAIN symbols
    /\ f \in symbols[lastOp'.name].Flags

\* C3: Const prevents overwrite.  A SetGlobal call on a symbol whose flags
\* include Const returns an error and leaves the symbol's global value and
\* flags exactly as they were.
C3_ConstPreventsOverwrite ==
    [][SetGlobalOnFlag(FlagConst) =>
        /\ lastOp'.err
        /\ symbols'[lastOp'.name] = symbols[lastOp'.name]]_vars

\* C3 witness: a SetGlobal call on a Const symbol has returned its error.
C3_Witness ==
    /\ lastOp.op = "SetGlobal"
    /\ lastOp.err
    /\ FlagConst \in symbols[lastOp.name].Flags

\* C4: SetGlobal returns an error if the symbol was defined with the Final
\* flag, and then does not change the symbol's global value.
C4_FinalPreventsOverwrite ==
    [][SetGlobalOnFlag(FlagFinal) =>
        /\ lastOp'.err
        /\ symbols'[lastOp'.name].Global = symbols[lastOp'.name].Global]_vars

(***************************************************************************)
(* The virtual machine of part_000: VM.Execute, one loop iteration a step. *)
(* Indices (pc, fp, stack positions) are Go's, counted from 0.             *)
(***************************************************************************)
MaxCode == 4

MaxExec == 2

\* &Frame{Next, Lambda, Toplevel}
Frame(next, lambda, toplevel) ==
    [t |-> "frame", Next |-> next, Lambda |-> lambda, Toplevel |-> toplevel]

\* The instructions Execute is run on.  OpPopS stands for the operands the
\* switch of Execute has no case for.  Instr.I is an int: local! -1 is the
\* LocalSet whose operand is negative.
Instr(op, v, i, j, sym) == [Op |-> op, V |-> v, I |-> i, J |-> j, Sym |-> sym]

VMInstrs ==
    { Instr("const", Number(1), 0, 0, ""),
      Instr("define", Nil, 0, 0, "x"),
      Instr("lambda", Nil, 0, 0, ""),
      Instr("global", Nil, 0, 0, "a"),
      Instr("global", Nil, 0, 0, "x"),
      Instr("local!", Nil, 0, 0, ""),
      Instr("local!", Nil, -1, 0, ""),
      Instr("pushf", Nil, 0, 0, ""),
      Instr("pushs", Nil, 0, 0, ""),
      Instr("pushs", Nil, 1, 0, ""),
      Instr("pushs", Nil, 3, 0, ""),
      Instr("call", Nil, 0, 0, ""),
      Instr("pops", Nil, 0, 0, ""),
      Instr("halt", Nil, 0, 0, "") }

Programs == UNION {[1..n -> VMInstrs] : n \in 1..MaxCode}

\* VM.DefineBuiltin of part_000 as a function of the table.
VMDefineBuiltin(syms, name, minArgs, maxArgs, nat, fresh) ==
    LET r == InternOf(syms, name, fresh) IN
    [symbols |-> [r.symbols EXCEPT
                    ![name].Global = Lambda(name, minArgs, maxArgs, nat)],
     nextId |-> r.nextId]

\* NewVM: the table with a builtin taking one or two arguments, and the
\* symbol the code names, interned and undefined.
NewVMSymbols ==
    LET b == VMDefineBuiltin(<<>>, "a", 1, 2, "na", 1)
    IN InternOf(b.symbols, "x", b.nextId)

\* What a native function may return: a value, or an error.
NativeResults == {[val |-> Number(2), err |-> FALSE], [val |-> Nil, err |-> TRUE]}

Panic(v) == [v EXCEPT !.state = "panic"]

Error(v) == [v EXCEPT !.state = "error"]

\* vm.pushScope
PushScope(v, size) ==
    [v EXCEPT !.stack = Append(@, [i \in 1..size |-> Nil])]

\* The frame check pushFrame and popFrame make at fp.
ValidFrame(v) ==
    /\ Len(v.stack[v.fp + 1]) = 1
    /\ v.stack[v.fp + 1][1].t = "frame"

\* vm.pushFrame
PushFrame(v, lambda, toplevel) ==
    IF v.fp < Len(v.stack) /\ ~ValidFrame(v)
    THEN Panic(v)
    ELSE [v EXCEPT !.fp = Len(v.stack),
                   !.stack = Append(@, <<Frame(v.fp, lambda, toplevel)>>)]

\* vm.popFrame that forgets vm.fp = frame.Next.
PopFrameMutantKeepFp(v) ==
    IF v.fp >= Len(v.stack) \/ ~ValidFrame(v)
    THEN Panic(v)
    ELSE [v EXCEPT !.stack = SubSeq(@, 1, v.fp)]

\* vm.popFrame; indexing the stack at fp panics when fp is past its end.
PopFrame(v) ==
    IF v.fp >= Len(v.stack) \/ ~ValidFrame(v)
    THEN Panic(v)
    ELSE [v EXCEPT !.stack = SubSeq(@, 1, v.fp),
                   !.fp = v.stack[v.fp + 1][1].Next]

\* Execute is entered: the toplevel frame is pushed.  vm.pc is left as the
\* last Execute left it.  entry records the stack depth and fp at the call.
ExecuteStart ==
    /\ vm.state \in {"new", "done", "error"}
    /\ vm.execs < MaxExec
    /\ vm' = PushFrame([vm EXCEPT !.state = "running", !.execs = @ + 1,
                                  !.entry = [sp |-> Len(vm.stack),
                                             fp |-> vm.fp]],
                       Nil, TRUE)
    /\ UNCHANGED <<symbols, nextId, interned, lastOp, native, run, scm,
                   call, runner>>

\* The instruction the loop fetches; pc is advanced before the switch.
Fetching(op) ==
    /\ vm.state = "running"
    /\ vm.pc < Len(vm.code)
    /\ vm.code[vm.pc + 1].Op = op

Fetched == vm.code[vm.pc + 1]

Advanced == [vm EXCEPT !.pc = @ + 1]

\* code[vm.pc] with pc past the end of the code: an index panic.
StepPastEnd ==
    /\ vm.state = "running"
    /\ vm.pc >= Len(vm.code)
    /\ vm' = Panic(vm)
    /\ UNCHANGED <<symbols, nextId, interned, lastOp, native, run, scm,
                   call, runner>>

StepConst ==
    /\ Fetching("const")
    /\ vm' = [Advanced EXCEPT !.accu = Fetched.V]
    /\ UNCHANGED <<symbols, nextId, interned, lastOp, native, run, scm,
                   call, runner>>

StepDefine ==
    /\ Fetching("define")
    /\ vm' = Advanced
    /\ symbols' = [symbols EXCEPT ![Fetched.Sym].Global = vm.accu]
    /\ UNCHANGED <<nextId, interned, lastOp, native, run, scm, call, runner>>

\* vm.compiled[instr.I:instr.J] panics unless 0 <= I <= J <= cap.
StepLambda ==
    /\ Fetching("lambda")
    /\ vm' = IF 0 <= Fetched.I /\ Fetched.I <= Fetched.J
                /\ Fetched.J <= Len(vm.code)
             THEN [Advanced EXCEPT !.accu = Lambda("", 1, 1, "")]
             ELSE Panic(Advanced)
    /\ UNCHANGED <<symbols, nextId, interned, lastOp, native, run, scm,
                   call, runner>>

StepGlobal ==
    /\ Fetching("global")
    /\ vm' = [Advanced EXCEPT !.accu = symbols[Fetched.Sym].Global]
    /\ UNCHANGED <<symbols, nextId, interned, lastOp, native, run, scm,
                   call, runner>>

StepLocalSet ==
    /\ Fetching("local!")
    /\ LET s == vm.fp + 1 + Fetched.I IN
       vm' = IF s >= 0 /\ s < Len(vm.stack) /\ Fetched.J >= 0
                /\ Fetched.J < Len(vm.stack[s + 1])
             THEN [Advanced EXCEPT !.stack[s + 1][Fetched.J + 1] = vm.accu]
             ELSE Panic(Advanced)
    /\ UNCHANGED <<symbols, nextId, interned, lastOp, native, run, scm,
                   call, runner>>

StepPushF ==
    /\ Fetching("pushf")
    /\ vm' = IF vm.accu.t # "lambda"
             THEN Error(Advanced)
             ELSE PushFrame(Advanced, vm.accu, Fetched.I # 0)
    /\ UNCHANGED <<symbols, nextId, interned, lastOp, native, run, scm,
                   call, runner>>

StepPushS ==
    /\ Fetching("pushs")
    /\ vm' = PushScope(Advanced, Fetched.I)
    /\ UNCHANGED <<symbols, nextId, interned, lastOp, native, run, scm,
                   call, runner>>

\* The callee and the arguments OpCall reads: the frame at fp and the
\* scope on top of the stack.
CallFrame(v) == v.stack[v.fp + 1][1]

CallArgs(v) == v.stack[Len(v.stack)]

\* OpCall goes on to the arity checks: the slot at fp holds a frame with a
\* lambda.  While Execute runs fp indexes a one-slot scope of the stack, so
\* vm.stack[vm.fp][0] is never out of range.
CallHasLambda(v) ==
    /\ Len(v.stack[v.fp + 1]) >= 1
    /\ CallFrame(v).t = "frame"
    /\ CallFrame(v).Lambda # Nil

\* The arity checks of OpCall.
ArityOkMutantNoMax(lambda, args) == Len(args) >= lambda.Min

ArityOk(lambda, args) ==
    /\ ~(Len(args) < lambda.Min)
    /\ ~(Len(args) > lambda.Max)

\* OpCall: the slot at fp holds no frame, or a frame without a lambda.
StepCallInvalid ==
    /\ Fetching("call")
    /\ vm.fp < Len(vm.stack)
    /\ Len(vm.stack[vm.fp + 1]) >= 1
    /\ ~CallHasLambda(vm)
    /\ vm' = Error(Advanced)
    /\ UNCHANGED <<symbols, nextId, interned, lastOp, native, run, scm,
                   call, runner>>

\* OpCall: too few or too many arguments.
StepCallArity ==
    /\ Fetching("call")
    /\ vm.fp < Len(vm.stack)
    /\ CallHasLambda(vm)
    /\ ~ArityOk(CallFrame(vm).Lambda, CallArgs(vm))
    /\ vm' = Error(Advanced)
    /\ UNCHANGED <<symbols, nextId, interned, lastOp, native, run, scm,
                   call, runner>>

\* OpCall: the lambda is not native.
StepCallNotNative ==
    /\ Fetching("call")
    /\ vm.fp < Len(vm.stack)
    /\ CallHasLambda(vm)
    /\ ArityOk(CallFrame(vm).Lambda, CallArgs(vm))
    /\ CallFrame(vm).Lambda.Native = ""
    /\ vm' = Error(Advanced)
    /\ UNCHANGED <<symbols, nextId, interned, lastOp, native, run, scm,
                   call, runner>>

\* OpCall invoking the native function, which returns a value or an error.
StepCallNative ==
    /\ Fetching("call")
    /\ vm.fp < Len(vm.stack)
    /\ CallHasLambda(vm)
    /\ ArityOk(CallFrame(vm).Lambda, CallArgs(vm))
    /\ CallFrame(vm).Lambda.Native # ""
    /\ native' = Append(native, [lambda |-> CallFrame(vm).Lambda,
                                 args |-> CallArgs(vm)])
    /\ \E r \in NativeResults :
          vm' = IF r.err
                THEN Error([Advanced EXCEPT !.accu = r.val])
                ELSE PopFrame([Advanced EXCEPT !.accu = r.val])
    /\ UNCHANGED <<symbols, nextId, interned, lastOp, run, scm, call, runner>>

StepHalt ==
    /\ Fetching("halt")
    /\ vm' = LET v == PopFrame(Advanced) IN
             IF v.state = "panic" THEN v ELSE [v EXCEPT !.state = "done"]
    /\ UNCHANGED <<symbols, nextId, interned, lastOp, native, run, scm,
                   call, runner>>

\* default: the operand is not implemented.
StepDefault ==
    /\ vm.state = "running"
    /\ vm.pc < Len(vm.code)
    /\ Fetched.Op \notin {"const", "define", "lambda", "global", "local!",
                          "pushf", "pushs", "call", "halt"}
    /\ vm' = Error(Advanced)
    /\ UNCHANGED <<symbols, nextId, interned, lastOp, native, run, scm,
                   call, runner>>

InitVM ==
    /\ runner = RunnerIdle
    /\ scm = ScmIdle
    /\ call = CallIdle
    /\ symbols = NewVMSymbols.symbols
    /\ nextId = NewVMSymbols.nextId
    /\ interned = {}
    /\ lastOp = NoOp
    /\ \E code \in Programs :
          vm = [state |-> "new", code |-> code, pc |-> 0, fp |-> 0,
                accu |-> Nil, stack |-> <<>>, execs |-> 0,
                entry |-> [sp |-> 0, fp |-> 0]]
    /\ native = <<>>
    /\ run = RunIdle

NextVM ==
    \/ ExecuteStart
    \/ StepPastEnd
    \/ StepConst
    \/ StepDefine
    \/ StepLambda
    \/ StepGlobal
    \/ StepLocalSet
    \/ StepPushF
    \/ StepPushS
    \/ StepCallInvalid
    \/ StepCallArity
    \/ StepCallNotNative
    \/ StepCallNative
    \/ StepHalt
    \/ StepDefault

SpecVM == InitVM /\ [][NextVM]_vars

(***************************************************************************)
(* Claims about VM.Execute, checked under SpecVM.                          *)
(***************************************************************************)

\* C5: native arity guarantee.  Every native invocation made by OpCall was
\* passed a number of arguments between the function's declared minimum
\* and maximum; and an OpCall whose frame holds a lambda and whose argument
\* count is outside that range ends Execute with an error without invoking
\* any native function.
C5_NativeArity ==
    /\ [](\A i \in DOMAIN native :
            /\ native[i].lambda.Min <= Len(native[i].args)
            /\ Len(native[i].args) <= native[i].lambda.Max)
    /\ [][(/\ Fetching("call")
           /\ CallHasLambda(vm)
           /\ \/ Len(CallArgs(vm)) < CallFrame(vm).Lambda.Min
              \/ Len(CallArgs(vm)) > CallFrame(vm).Lambda.Max)
          => (vm'.state = "error" /\ native' = native)]_vars

\* C5 witness: a native function of arity 1..2 has been invoked with the
\* one-slot argument scope pushed for it, and has returned.
C5_Witness ==
    /\ vm.state = "running"
    /\ Len(native) = 1
    /\ native[1].lambda.Min = 1
    /\ Len(native[1].args) = 1
    /\ native[1].args[1].t # "frame"
    /\ vm.accu = Number(2)

(***************************************************************************)
(* The AST and its lowering to bytecode (scheme.go, AST.Bytecode).  A node *)
(* is a record with its kind; a nil AST is NoAST.  Source locations (From, *)
(* ArgLocs, DatumLocs) only label instructions for diagnostics and are     *)
(* left out.                                                               *)
\* What pushFrame and popFrame check at fp, and where fp may be: at 0, or
\* at a slot of the stack; a slot at fp is a one-slot scope holding a Frame.
FpHoldsFrame(v) ==
    /\ v.fp = 0 \/ v.fp < Len(v.stack)
    /\ v.fp < Len(v.stack) => ValidFrame(v)

\* The code Execute is given has no LocalSet with a negative operand.
SlotsFromFp(code) ==
    \A k \in DOMAIN code : code[k].Op = "local!" => code[k].I >= 0

NoAST == [kind |-> "nil"]

\* &EnvFrame{Index}: the frame's first slot, counted from the slot after fp.
EnvFrame(index) == [Index |-> index]

ASTConstant(value) == [kind |-> "constant", Value |-> value]

\* ast.Binding of an identifier that resolves to no frame: a global.
NoBinding == [kind |-> "nil"]

TypeStack == "stack"

TypeEnv == "env"

\* &EnvBinding{Frame: &EnvFrame{Type, Index}, Index}
EnvBinding(type, frameIndex, index) ==
    [kind |-> "binding", Frame |-> [Type |-> type, Index |-> frameIndex],
     Index |-> index]

ASTIdentifier(name, binding) ==
    [kind |-> "identifier", Name |-> name, Binding |-> binding]

ASTCall(func, argFrame, args, tail) ==
    [kind |-> "call", Func |-> func, ArgFrame |-> argFrame, Args |-> args,
     Tail |-> tail]

ASTIf(cond, true, false) ==
    [kind |-> "if", Cond |-> cond, True |-> true, False |-> false]

ASTAnd(exprs) == [kind |-> "and", Exprs |-> exprs]

ASTOr(exprs) == [kind |-> "or", Exprs |-> exprs]

ASTCondChoice(cond, func, valueFrame, argsFrame, exprs) ==
    [Cond |-> cond, Func |-> func, FuncValueFrame |-> valueFrame,
     FuncArgsFrame |-> argsFrame, Exprs |-> exprs]

ASTCond(choices, tail, captures) ==
    [kind |-> "cond", Choices |-> choices, Tail |-> tail,
     Captures |-> captures]

ASTCaseChoice(datums, exprs) == [Datums |-> datums, Exprs |-> exprs]

ASTCase(choices, valueFrame, eqvArgFrame, expr, tail, captures) ==
    [kind |-> "case", Choices |-> choices, ValueFrame |-> valueFrame,
     EqvArgFrame |-> eqvArgFrame, Expr |-> expr, Tail |-> tail,
     Captures |-> captures]

ASTLetBinding(binding, init) == [Binding |-> binding, Init |-> init]

ASTLet(captures, tail, bindings, body) ==
    [kind |-> "let", Captures |-> captures, Tail |-> tail,
     Bindings |-> bindings, Body |-> body]

\* &ASTLambda{Name, Body, Captures, Define}
ASTLambda(name, body, captures, define) ==
    [kind |-> "lambda", Name |-> name, Body |-> body, Captures |-> captures,
     Define |-> define]

ASTSequence(items) == [kind |-> "sequence", Items |-> items]

ASTApply(lambda, args, tail) ==
    [kind |-> "apply", Lambda |-> lambda, Args |-> args, Tail |-> tail]

\* A node whose Bytecode returns an error: a lambda definition that
\* c.define refuses.
ASTFailing == [kind |-> "failing"]

(***************************************************************************)
(* The compiler's emitters.  The compiler state c holds the code emitted   *)
(* so far, the label counter, the symbol table it interns into, and err:   *)
(* whether the Bytecode call that produced it returned an error.           *)
(***************************************************************************)
NewCompiler(syms, fresh) ==
    [code |-> <<>>, nextLabel |-> 0, symbols |-> syms, nextId |-> fresh,
     err |-> FALSE, lambdas |-> <<>>]

BoolInt(b) == IF b THEN 1 ELSE 0

\* c.addInstr(from, op, v, i), with the J the caller stores afterwards.
addInstr(c, op, v, i, j) ==
    [c EXCEPT !.code = Append(@, Instr(op, v, i, j, ""))]

\* c.addInstr followed by instr.Sym = c.scm.Intern(name).
addInstrSym(c, op, i, name) ==
    LET r == InternOf(c.symbols, name, c.nextId) IN
    [c EXCEPT !.code = Append(@, Instr(op, Nil, i, 0, name)),
              !.symbols = r.symbols,
              !.nextId = r.nextId]

\* c.newLabel(): the compiler after the call; the label's id is c.nextLabel.
newLabel(c) == [c EXCEPT !.nextLabel = @ + 1]

addLabel(c, label) == addInstr(c, "label", Nil, label, 0)

addCall(c, argc, tail) == addInstr(c, "call", Nil, argc, BoolInt(tail))

addPushS(c, size, captures) ==
    addInstr(c, "pushs", Nil, size, BoolInt(captures))

addPopS(c, size, captures) ==
    addInstr(c, "pops", Nil, size, BoolInt(captures))

Failed(c) == [c EXCEPT !.err = TRUE]

(***************************************************************************)
(* AST.Bytecode, one operator per node kind.  Each takes the compiler      *)
(* state and yields the state after the call; err is the error returned.   *)
(***************************************************************************)
RECURSIVE Bytecode(_, _)
RECURSIVE BytecodeExprs(_, _, _)
RECURSIVE CallArgsLoop(_, _, _)
RECURSIVE ShortCircuitLoop(_, _, _, _, _)
RECURSIVE CondLoop(_, _, _, _, _)
RECURSIVE CaseLoop(_, _, _, _, _)
RECURSIVE CaseDatumsLoop(_, _, _, _, _)

\* for _, expr := range exprs { err := expr.Bytecode(c) ... }
BytecodeExprs(exprs, c, i) ==
    IF i > Len(exprs) THEN c
    ELSE LET r == Bytecode(exprs[i], c) IN
         IF r.err THEN r ELSE BytecodeExprs(exprs, r, i + 1)

\* ASTConstant.Bytecode
BytecodeConstant(ast, c) == addInstr(c, "const", ast.Value, 0, 0)

\* ASTIdentifier.Bytecode
BytecodeIdentifier(ast, c) ==
    IF ast.Binding # NoBinding
    THEN IF ast.Binding.Frame.Type = TypeStack
         THEN addInstr(c, "local", Nil,
                       ast.Binding.Frame.Index + ast.Binding.Index, 0)
         ELSE addInstr(c, "env", Nil, ast.Binding.Frame.Index,
                       ast.Binding.Index)
    ELSE addInstrSym(c, "global", 0, ast.Name)

\* The slot of argument idx (from 0) of a call: ast.ArgFrame.Index+idx.
CallArgSlotMutantFirst(ast, idx) == ast.ArgFrame.Index

CallArgSlot(ast, idx) == ast.ArgFrame.Index + idx

\* for idx, arg := range ast.Args: the argument, then its LocalSet.
CallArgsLoop(ast, c, i) ==
    IF i > Len(ast.Args) THEN c
    ELSE LET r == Bytecode(ast.Args[i], c) IN
         IF r.err THEN r
         ELSE CallArgsLoop(ast,
                  addInstr(r, "local!", Nil, CallArgSlot(ast, i - 1), 0),
                  i + 1)

\* ASTCall.Bytecode.  An error of ast.Func.Bytecode makes it return nil.
BytecodeCall(ast, c) ==
    LET f == Bytecode(ast.Func, c) IN
    IF f.err THEN [f EXCEPT !.err = FALSE]
    ELSE LET c1 == addInstr(f, "pushf", Nil, 0, 0)
             c2 == addInstr(c1, "pushs", Nil, Len(ast.Args), 0)
             c3 == CallArgsLoop(ast, c2, 1)
         IN IF c3.err THEN c3
            ELSE addCall(c3, Len(ast.Args), ast.Tail)

\* The jump over the else branch that ends the true branch of (if c t f).
IfJmpEndMutantNone(c, labelEnd) == c

IfJmpEnd(c, labelEnd) == addInstr(c, "jmp", Nil, 0, labelEnd)

\* ASTIf.Bytecode
BytecodeIf(ast, c) ==
    LET labelFalse == c.nextLabel
        labelEnd == c.nextLabel + 1
        r == Bytecode(ast.Cond, newLabel(newLabel(c)))
    IN IF r.err THEN r
       ELSE IF ast.False = NoAST
       THEN LET t == Bytecode(ast.True,
                              addInstr(r, "ifnot", Nil, 0, labelEnd))
            IN IF t.err THEN t ELSE addLabel(t, labelEnd)
       ELSE LET t == Bytecode(ast.True,
                              addInstr(r, "ifnot", Nil, 0, labelFalse))
            IN IF t.err THEN t
               ELSE LET f == Bytecode(ast.False,
                                addLabel(IfJmpEnd(t, labelEnd), labelFalse))
                    IN IF f.err THEN f ELSE addLabel(f, labelEnd)

\* for i := 0; i < len(ast.Exprs)-1; i++: the expression, then the branch
\* to the end (OpIfNot for and, OpIf for or).
ShortCircuitLoop(exprs, c, i, op, labelEnd) ==
    IF i > Len(exprs) - 1 THEN c
    ELSE LET r == Bytecode(exprs[i], c) IN
         IF r.err THEN r
         ELSE ShortCircuitLoop(exprs, addInstr(r, op, Nil, 0, labelEnd),
                               i + 1, op, labelEnd)

\* The branch and emits after every expression but the last.
AndBranchOpMutantIf == "if"

AndBranchOp == "ifnot"

\* ASTAnd.Bytecode
BytecodeAnd(ast, c) ==
    IF Len(ast.Exprs) = 0
    THEN addInstr(c, "const", Boolean(TRUE), 0, 0)
    ELSE LET labelEnd == c.nextLabel
             r == ShortCircuitLoop(ast.Exprs, newLabel(c), 1, AndBranchOp,
                                   labelEnd)
         IN IF r.err THEN r
            ELSE LET l == Bytecode(ast.Exprs[Len(ast.Exprs)], r) IN
                 IF l.err THEN l ELSE addLabel(l, labelEnd)

\* ASTOr.Bytecode
BytecodeOr(ast, c) ==
    IF Len(ast.Exprs) = 0
    THEN addInstr(c, "const", Boolean(FALSE), 0, 0)
    ELSE LET labelEnd == c.nextLabel
             r == ShortCircuitLoop(ast.Exprs, newLabel(c), 1, "if", labelEnd)
         IN IF r.err THEN r
            ELSE LET l == Bytecode(ast.Exprs[Len(ast.Exprs)], r) IN
                 IF l.err THEN l ELSE addLabel(l, labelEnd)

\* var labelClause *Instr: no label yet.
NoLabel == [kind |-> "nil"]

\* The argument of the call of a (test => f) clause: the saved test value
\* is read back from the value scope into accu.
CondLoadValueMutantNone(c, choice) == c

CondLoadValue(c, choice) ==
    addInstr(c, "local", Nil, choice.FuncValueFrame.Index, 0)

\* The body of a cond clause: cond => func, or the clause's expressions.
CondChoiceBody(ast, choice, c) ==
    IF choice.Func # NoAST
    THEN LET c1 == addInstr(c, "pushs", Nil, 1, 0)
             c2 == addInstr(c1, "local!", Nil,
                            choice.FuncValueFrame.Index, 0)
             f == Bytecode(choice.Func, c2)
         IN IF f.err THEN f
            ELSE LET c3 == addInstr(f, "pushf", Nil, 0, 0)
                     c4 == addInstr(c3, "pushs", Nil, 1, 0)
                     c5 == CondLoadValue(c4, choice)
                     c6 == addInstr(c5, "local!", Nil,
                                    choice.FuncArgsFrame.Index, 0)
                     c7 == addCall(c6, 1, ast.Tail)
                 IN IF ~ast.Tail THEN addPopS(c7, 1, ast.Captures) ELSE c7
    ELSE BytecodeExprs(choice.Exprs, c, 1)

\* The jump to the end that closes a cond clause.
CondJmpEndMutantSelf(c, labelEnd) ==
    addLabel(addInstr(c, "jmp", Nil, 0, labelEnd), labelEnd)

CondJmpEnd(c, labelEnd) == addInstr(c, "jmp", Nil, 0, labelEnd)

\* for i, choice := range ast.Choices of ASTCond.Bytecode
CondLoop(ast, c, i, labelClause, labelEnd) ==
    IF i > Len(ast.Choices) THEN c
    ELSE LET choice == ast.Choices[i]
             c1 == IF labelClause # NoLabel
                   THEN addLabel(c, labelClause.I) ELSE c
             more == i < Len(ast.Choices)
             next == IF more THEN c1.nextLabel ELSE labelEnd
             c2 == IF more THEN newLabel(c1) ELSE c1
             nextClause == IF more THEN [kind |-> "label", I |-> next]
                           ELSE labelClause
             t == IF choice.Cond # NoAST
                  THEN LET r == Bytecode(choice.Cond, c2) IN
                       IF r.err THEN r
                       ELSE addInstr(r, "ifnot", Nil, 0, next)
                  ELSE c2
         IN IF t.err THEN t
            ELSE LET b == CondChoiceBody(ast, choice, t) IN
                 IF b.err THEN b
                 ELSE CondLoop(ast, CondJmpEnd(b, labelEnd),
                               i + 1, nextClause, labelEnd)

\* ASTCond.Bytecode
BytecodeCond(ast, c) ==
    LET labelEnd == c.nextLabel
        r == CondLoop(ast, newLabel(c), 1, NoLabel, labelEnd)
    IN IF r.err THEN r ELSE addLabel(r, labelEnd)

\* The branch taken after (eqv? value datum): to the clause's expressions
\* when the comparison is true.
CaseDatumBranchMutantIfNot(c, labelExprs) ==
    addInstr(c, "ifnot", Nil, 0, labelExprs)

CaseDatumBranch(c, labelExprs) == addInstr(c, "if", Nil, 0, labelExprs)

\* for idx, datum := range choice.Datums: (eqv? value datum)
CaseDatumsLoop(ast, choice, c, idx, labelExprs) ==
    IF idx > Len(choice.Datums) THEN c
    ELSE LET c1 == addInstrSym(c, "global", 0, "eqv?")
             c2 == addInstr(c1, "pushf", Nil, 0, 0)
             c3 == addInstr(c2, "pushs", Nil, 2, 0)
             c4 == addInstr(c3, "local", Nil, ast.ValueFrame.Index, 0)
             c5 == addInstr(c4, "local!", Nil, ast.EqvArgFrame.Index, 0)
             c6 == addInstr(c5, "const", choice.Datums[idx], 0, 0)
             c7 == addInstr(c6, "local!", Nil, ast.EqvArgFrame.Index + 1, 0)
             c8 == addCall(c7, 2, FALSE)
         IN CaseDatumsLoop(ast, choice, CaseDatumBranch(c8, labelExprs),
                           idx + 1, labelExprs)

\* for i, choice := range ast.Choices of ASTCase.Bytecode
CaseLoop(ast, c, i, labelClause, labelEnd) ==
    IF i > Len(ast.Choices) THEN c
    ELSE LET choice == ast.Choices[i]
             c1 == IF labelClause # NoLabel
                   THEN addLabel(c, labelClause.I) ELSE c
             more == i < Len(ast.Choices)
             next == IF more THEN c1.nextLabel ELSE labelEnd
             c2 == IF more THEN newLabel(c1) ELSE c1
             nextClause == IF more THEN [kind |-> "label", I |-> next]
                           ELSE labelClause
             d == IF Len(choice.Datums) > 0
                  THEN LET labelExprs == c2.nextLabel
                           c3 == CaseDatumsLoop(ast, choice, newLabel(c2), 1,
                                                labelExprs)
                           c4 == addInstr(c3, "jmp", Nil, 0, next)
                       IN addLabel(c4, labelExprs)
                  ELSE c2
             b == BytecodeExprs(choice.Exprs, d, 1)
         IN IF b.err THEN b
            ELSE CaseLoop(ast, addInstr(b, "jmp", Nil, 0, labelEnd),
                          i + 1, nextClause, labelEnd)

\* ASTCase.Bytecode
BytecodeCase(ast, c) ==
    LET labelEnd == c.nextLabel
        c1 == addInstr(newLabel(c), "pushs", Nil, 1, 0)
        k == Bytecode(ast.Expr, c1)
    IN IF k.err THEN k
       ELSE LET c2 == addInstr(k, "local!", Nil, ast.ValueFrame.Index, 0)
                r == CaseLoop(ast, c2, 1, NoLabel, labelEnd)
            IN IF r.err THEN r
               ELSE LET c3 == addLabel(r, labelEnd) IN
                    IF ~ast.Tail THEN addPopS(c3, 1, ast.Captures) ELSE c3

\* for _, binding := range ast.Bindings: the init, then its LocalSet or
\* EnvSet.
RECURSIVE LetBindingsLoop(_, _, _)
LetBindingsLoop(ast, c, i) ==
    IF i > Len(ast.Bindings) THEN c
    ELSE LET binding == ast.Bindings[i]
             r == Bytecode(binding.Init, c)
         IN IF r.err THEN r
            ELSE LetBindingsLoop(ast,
                   IF binding.Binding.Frame.Type = TypeStack
                   THEN addInstr(r, "local!", Nil,
                                 binding.Binding.Frame.Index
                                    + binding.Binding.Index, 0)
                   ELSE addInstr(r, "env!", Nil,
                                 binding.Binding.Frame.Index,
                                 binding.Binding.Index),
                   i + 1)

\* The end of a let: its scope is popped unless the let is in tail
\* position.
LetPopSMutantNone(ast, c) == c

LetPopS(ast, c) ==
    IF ~ast.Tail THEN addPopS(c, Len(ast.Bindings), ast.Captures) ELSE c

\* ASTLet.Bytecode
BytecodeLet(ast, c) ==
    LET c1 == addPushS(c, Len(ast.Bindings), ast.Captures)
        b == LetBindingsLoop(ast, c1, 1)
    IN IF b.err THEN b
       ELSE LET body == BytecodeExprs(ast.Body, b, 1) IN
            IF body.err THEN body ELSE LetPopS(ast, body)

\* The operand of the Lambda instruction.
LambdaIndexMutantZero(c) == 0

LambdaIndex(c) == Len(c.lambdas)

\* c.define of a lambda definition: the Define of its name.
define(c, name) == addInstrSym(c, "define", 0, name)

\* ASTLambda.Bytecode: the Lambda instruction and the lambda-table entry.
BytecodeLambda(ast, c) ==
    LET c1 == addInstr(c, "lambda", Nil, LambdaIndex(c), 0)
        c2 == [c1 EXCEPT !.lambdas =
                  Append(@, [Name |-> ast.Name, Body |-> ast.Body,
                             Captures |-> ast.Captures])]
    IN IF ast.Define THEN define(c2, ast.Name) ELSE c2

\* ASTSequence.Bytecode
BytecodeSequence(ast, c) == BytecodeExprs(ast.Items, c, 1)

\* ASTApply.Bytecode
BytecodeApply(ast, c) ==
    LET f == Bytecode(ast.Lambda, c) IN
    IF f.err THEN f
    ELSE LET c1 == addInstr(f, "pushf", Nil, 0, 0)
             a == Bytecode(ast.Args, c1)
         IN IF a.err THEN a
            ELSE addCall(addInstr(a, "pusha", Nil, 0, 0), -1, ast.Tail)

\* AST.Bytecode: the dispatch on the node's dynamic type.  A failing node
\* stands for any node whose Bytecode returns an error.
Bytecode(ast, c) ==
    CASE ast.kind = "constant" -> BytecodeConstant(ast, c)
      [] ast.kind = "identifier" -> BytecodeIdentifier(ast, c)
      [] ast.kind = "call" -> BytecodeCall(ast, c)
      [] ast.kind = "if" -> BytecodeIf(ast, c)
      [] ast.kind = "and" -> BytecodeAnd(ast, c)
      [] ast.kind = "or" -> BytecodeOr(ast, c)
      [] ast.kind = "cond" -> BytecodeCond(ast, c)
      [] ast.kind = "case" -> BytecodeCase(ast, c)
      [] ast.kind = "let" -> BytecodeLet(ast, c)
      [] ast.kind = "lambda" -> BytecodeLambda(ast, c)
      [] ast.kind = "sequence" -> BytecodeSequence(ast, c)
      [] ast.kind = "apply" -> BytecodeApply(ast, c)
      [] ast.kind = "failing" -> Failed(c)

(***************************************************************************)
(* The machine that runs lowered code.  Top-level code runs as the body    *)
(* of an init lambda applied to no arguments: one frame on the stack, fp   *)
(* at it, and a final Return.  Stack slots are addressed from the slot     *)
(* after the frame of the running activation; every callee here is         *)
(* native, so the activation never changes and PushF leaves fp alone.      *)
(***************************************************************************)

\* The natives the embedder registers for the runs: tag returns its second
\* argument, pack returns the list of its arguments, eqv? compares.
PackLambda == Lambda("pack", 0, MaxInt, "pack")

List(elems) == [t |-> "list", elems |-> elems]

NativeApply(name, args) ==
    CASE name = "tag" -> args[2]
      [] name = "pack" -> List(args)
      [] name = "eqv?" -> Boolean(args[1] = args[2])

RunBuiltins ==
    << [Name |-> "tag", Args |-> <<ArgFixed, ArgFixed>>, Return |-> "any",
        Native |-> "tag", Flags |-> {}, Aliases |-> <<>>],
       [Name |-> "pack", Args |-> <<ArgRest>>, Return |-> "any",
        Native |-> "pack", Flags |-> {}, Aliases |-> <<>>],
       [Name |-> "eqv?", Args |-> <<ArgFixed, ArgFixed>>, Return |-> "any",
        Native |-> "eqv?", Flags |-> {}, Aliases |-> <<>>] >>

RECURSIVE DefineBuiltins(_, _)
\* scm.DefineBuiltins: DefineBuiltin for each element in order.
DefineBuiltins(st, builtins) ==
    IF builtins = <<>> THEN st
    ELSE DefineBuiltins(DefineBuiltinOf(st.symbols, Head(builtins),
                                        st.nextId),
                        Tail(builtins))

RunSymbols == DefineBuiltins([symbols |-> <<>>, nextId |-> 1], RunBuiltins)

Running == run.state = "running"

RunAt(op) == Running /\ run.code[run.pc].Op = op

RunInstr == run.code[run.pc]

\* The index of the Label instruction a branch to label id resolves to.
LabelIndex(code, id) ==
    CHOOSE k \in DOMAIN code : code[k].Op = "label" /\ code[k].I = id

RunUnchanged ==
    UNCHANGED <<symbols, nextId, interned, lastOp, vm, native, scm, call, runner>>

\* Library.Compile and Scheme.Apply(init, nil): lower the AST, end the
\* code with Return, and start the run with the init lambda's frame.
Compile ==
    /\ run.state = "new"
    /\ LET c == Bytecode(run.ast, NewCompiler(symbols, nextId)) IN
       /\ symbols' = c.symbols
       /\ nextId' = c.nextId
       /\ run' = IF c.err
                 THEN [run EXCEPT !.state = "error"]
                 ELSE [run EXCEPT
                         !.state = "running",
                         !.code = Append(c.code,
                                         Instr("return", Nil, 0, 0, "")),
                         !.pc = 1,
                         !.fp = 1,
                         !.stack = <<Frame(0, Nil, TRUE)>>]
    /\ UNCHANGED <<interned, lastOp, vm, native, scm, call, runner>>

RunConst ==
    /\ RunAt("const")
    /\ run' = [run EXCEPT !.accu = RunInstr.V, !.pc = @ + 1]
    /\ RunUnchanged

\* Global: fails if the symbol is undefined.
RunGlobal ==
    /\ RunAt("global")
    /\ run' = IF FlagDefined \in symbols[RunInstr.Sym].Flags
              THEN [run EXCEPT !.accu = symbols[RunInstr.Sym].Global,
                               !.pc = @ + 1]
              ELSE Error(run)
    /\ RunUnchanged

RunLocal ==
    /\ RunAt("local")
    /\ run' = IF run.fp + 1 + RunInstr.I \in DOMAIN run.stack
              THEN [run EXCEPT !.accu = run.stack[run.fp + 1 + RunInstr.I],
                               !.pc = @ + 1]
              ELSE Panic(run)
    /\ RunUnchanged

RunLocalSet ==
    /\ RunAt("local!")
    /\ run' = IF run.fp + 1 + RunInstr.I \in DOMAIN run.stack
              THEN [run EXCEPT !.stack[run.fp + 1 + RunInstr.I] = run.accu,
                               !.pc = @ + 1]
              ELSE Panic(run)
    /\ RunUnchanged

\* Env i, j: slot j of frame i of the environment chain.
RunEnv ==
    /\ RunAt("env")
    /\ run' = IF /\ RunInstr.I + 1 \in DOMAIN run.env
                 /\ RunInstr.J + 1 \in DOMAIN run.env[RunInstr.I + 1]
              THEN [run EXCEPT
                      !.accu = run.env[RunInstr.I + 1][RunInstr.J + 1],
                      !.pc = @ + 1]
              ELSE Panic(run)
    /\ RunUnchanged

RunEnvSet ==
    /\ RunAt("env!")
    /\ run' = IF /\ RunInstr.I + 1 \in DOMAIN run.env
                 /\ RunInstr.J + 1 \in DOMAIN run.env[RunInstr.I + 1]
              THEN [run EXCEPT
                      !.env[RunInstr.I + 1][RunInstr.J + 1] = run.accu,
                      !.pc = @ + 1]
              ELSE Panic(run)
    /\ RunUnchanged

\* PushS n, captures: n new slots on the stack, or a heap frame of n slots
\* on the environment chain when the scope is captured.
RunPushS ==
    /\ RunAt("pushs")
    /\ run' = IF RunInstr.J = 0
              THEN [run EXCEPT
                      !.stack = @ \o [k \in 1..RunInstr.I |-> Nil],
                      !.pc = @ + 1]
              ELSE [run EXCEPT
                      !.env = Append(@, [k \in 1..RunInstr.I |-> Nil]),
                      !.pc = @ + 1]
    /\ RunUnchanged

\* PopS n, captures: pops the top scope; popping what was not pushed is a
\* VM invariant violation.
RunPopS ==
    /\ RunAt("pops")
    /\ run' = IF RunInstr.J = 0
              THEN IF Len(run.stack) - run.fp >= RunInstr.I
                   THEN [run EXCEPT
                           !.stack = SubSeq(@, 1, Len(@) - RunInstr.I),
                           !.pc = @ + 1]
                   ELSE Panic(run)
              ELSE IF run.env # <<>>
                   THEN [run EXCEPT
                           !.env = SubSeq(@, 1, Len(@) - 1),
                           !.pc = @ + 1]
                   ELSE Panic(run)
    /\ RunUnchanged

\* PushF: a frame record with the caller's fp and the callee from accu.
RunPushF ==
    /\ RunAt("pushf")
    /\ run' = IF run.accu.t = "lambda"
              THEN [run EXCEPT
                      !.stack = Append(@, Frame(run.fp, run.accu, FALSE)),
                      !.pc = @ + 1]
              ELSE Error(run)
    /\ RunUnchanged

\* The frame of the call being made: the slot below the argc arguments.
RunCallFrame == Len(run.stack) - RunInstr.I

RunCallArgs == SubSeq(run.stack, RunCallFrame + 1, Len(run.stack))

\* Call argc: the callee of the frame is checked against argc, a native is
\* invoked with the argument slots, accu gets its result, and the
\* arguments' scope and the frame are popped.  Natives ignore tail.
RunCall ==
    /\ RunAt("call")
    /\ IF RunCallFrame <= run.fp \/ run.stack[RunCallFrame].t # "frame"
       THEN run' = Panic(run) /\ native' = native
       ELSE LET lambda == run.stack[RunCallFrame].Lambda IN
            IF RunInstr.I < lambda.Min \/ RunInstr.I > lambda.Max
            THEN run' = Error(run) /\ native' = native
            ELSE /\ run' = [run EXCEPT
                      !.accu = NativeApply(lambda.Native, RunCallArgs),
                      !.stack = SubSeq(@, 1, RunCallFrame - 1),
                      !.pc = @ + 1]
                 /\ native' = Append(native,
                                [lambda |-> lambda, args |-> RunCallArgs])
    /\ UNCHANGED <<symbols, nextId, interned, lastOp, vm, scm, call, runner>>

\* If label: branch when accu is truthy; only #f is falsey.
RunIf ==
    /\ RunAt("if")
    /\ run' = IF run.accu # Boolean(FALSE)
              THEN [run EXCEPT !.pc = LabelIndex(run.code, RunInstr.J)]
              ELSE [run EXCEPT !.pc = @ + 1]
    /\ RunUnchanged

RunIfNot ==
    /\ RunAt("ifnot")
    /\ run' = IF run.accu = Boolean(FALSE)
              THEN [run EXCEPT !.pc = LabelIndex(run.code, RunInstr.J)]
              ELSE [run EXCEPT !.pc = @ + 1]
    /\ RunUnchanged

RunJmp ==
    /\ RunAt("jmp")
    /\ run' = [run EXCEPT !.pc = LabelIndex(run.code, RunInstr.J)]
    /\ RunUnchanged

\* Label: a no-op marker.
RunLabel ==
    /\ RunAt("label")
    /\ run' = [run EXCEPT !.pc = @ + 1]
    /\ RunUnchanged

\* Return of the outermost frame: the stack is cut to the frame's base and
\* accu is the result.
RunReturn ==
    /\ RunAt("return")
    /\ run' = IF run.stack[run.fp].t = "frame"
              THEN [run EXCEPT !.state = "done",
                               !.stack = SubSeq(@, 1, run.fp - 1),
                               !.fp = run.stack[run.fp].Next]
              ELSE Panic(run)
    /\ RunUnchanged

(***************************************************************************)
(* The programs given to the machine: the ASTs the parser builds for       *)
(* top-level forms.  With d slots in use above fp, a call's frame takes    *)
(* slot d and its arguments the slots from d+1; cond's value scope is      *)
(* slot d and the => call's argument is slot d+2; case's key is slot d     *)
(* and the eqv? arguments are slots d+2 and d+3.  (tag k v) is the         *)
(* expression that records its evaluation as k and has the value v.        *)
(***************************************************************************)
MaxArgs == 2

MaxExprs == 3

MaxChoices == 2

MaxDatums == 2

LeafValues == {Boolean(FALSE), Boolean(TRUE), Number(1)}

NoFrame == [kind |-> "nil"]

Tagged(k, v, d) ==
    ASTCall(ASTIdentifier("tag", NoBinding), EnvFrame(d + 1),
            <<ASTConstant(Number(k)), ASTConstant(v)>>, FALSE)

\* The sequences of length n whose i-th element is drawn from S(i).
SeqsOf(n, S(_)) ==
    {q \in [1..n -> UNION {S(i) : i \in 1..n}] : \A i \in 1..n : q[i] \in S(i)}

\* (f a1 ... an)
CallFuncs ==
    {ASTIdentifier("pack", NoBinding), ASTIdentifier("tag", NoBinding),
     ASTIdentifier("undefined", NoBinding), ASTConstant(Number(1)),
     ASTFailing}

ArgExprs(i, d) ==
    {ASTConstant(Number(20 + i)), Tagged(i, Number(i), d),
     Tagged(i, Boolean(FALSE), d),
     ASTCall(ASTIdentifier("pack", NoBinding), EnvFrame(d + 1),
             <<Tagged(10 + i, Number(10 + i), d + 2)>>, FALSE)}

CallInputs ==
    UNION {{ASTCall(f, EnvFrame(1), args, FALSE) :
              f \in CallFuncs,
              args \in SeqsOf(n, LAMBDA i : ArgExprs(i, 1 + n))} :
           n \in 0..MaxArgs}

\* (if c a b) and (if c a)
IfConds ==
    {ASTConstant(v) : v \in LeafValues} \cup
    {Tagged(0, v, 0) : v \in LeafValues} \cup {ASTFailing}

IfBranches(k) ==
    {Tagged(k, Number(k), 0), Tagged(k, Boolean(FALSE), 0)} \cup
    {ASTIf(ASTConstant(v), Tagged(10 * k + 1, Number(10 * k + 1), 0),
           Tagged(10 * k + 2, Number(10 * k + 2), 0)) :
       v \in {Boolean(FALSE), Number(1)}}

IfInputs ==
    {ASTIf(c, a, b) :
       c \in IfConds, a \in IfBranches(1), b \in IfBranches(2) \cup {NoAST}}

\* (and e1 ... en) and (or e1 ... en)
AndOrExprs(i) == {Tagged(i, v, 0) : v \in LeafValues}

AndOrInputs ==
    UNION {{ASTAnd(exprs) : exprs \in SeqsOf(n, AndOrExprs)} \cup
           {ASTOr(exprs) : exprs \in SeqsOf(n, AndOrExprs)} :
           n \in 0..MaxExprs}

\* (cond clause1 ... clausem): clause i is (test => f), (test expr) or,
\* last, (else expr).
CondFuncs(i) ==
    {ASTIdentifier("pack", NoBinding), Tagged(10 * i + 1, PackLambda, 1)}

CondChoices(i, last) ==
    {ASTCondChoice(Tagged(10 * i, v, 0), f, EnvFrame(0), EnvFrame(2), <<>>) :
       v \in LeafValues, f \in CondFuncs(i)} \cup
    {ASTCondChoice(Tagged(10 * i, v, 0), NoAST, NoFrame, NoFrame,
                   <<Tagged(10 * i + 2, Number(i), 0)>>) :
       v \in LeafValues} \cup
    (IF last
     THEN {ASTCondChoice(NoAST, NoAST, NoFrame, NoFrame,
                         <<Tagged(10 * i + 2, Number(i), 0)>>)}
     ELSE {})

CondInputs ==
    UNION {{ASTCond(choices, FALSE, FALSE) :
              choices \in SeqsOf(m, LAMBDA i : CondChoices(i, i = m))} :
           m \in 1..MaxChoices}

\* (case key clause1 ... clausem): clause i is ((datum ...) expr) or,
\* last, (else expr).  The key is 2: a datum 2 matches, a datum 1 does not.
KeyValues == {Number(2)}

DatumValues == {Number(1), Number(2)}

CaseKeys ==
    {Tagged(0, k, 1) : k \in KeyValues} \cup
    {ASTConstant(k) : k \in KeyValues}

DatumSeqs == UNION {[1..n -> DatumValues] : n \in 1..MaxDatums}

CaseChoices(i, last) ==
    {ASTCaseChoice(datums, <<Tagged(i, Number(10 + i), 1)>>) :
       datums \in DatumSeqs} \cup
    (IF last
     THEN {ASTCaseChoice(<<>>, <<Tagged(i, Number(10 + i), 1)>>)}
     ELSE {})

CaseInputs ==
    UNION {{ASTCase(choices, EnvFrame(0), EnvFrame(2), key, FALSE, FALSE) :
              choices \in SeqsOf(m, LAMBDA i : CaseChoices(i, i = m)),
              key \in CaseKeys} :
           m \in 1..MaxChoices}

\* (let ((x1 init1) ... (xn initn)) body ...): the bindings take the n
\* slots from d when the let's frame is on the stack, and frame 0 of the
\* environment chain when it is captured.  The body reads x1, or is an
\* expression, a nested let, or a nested cond with a => clause.
MaxBindings == 2

LetType(captures) == IF captures THEN TypeEnv ELSE TypeStack

LetInits(i, d) == {Tagged(i, Number(i), d), ASTConstant(Number(20 + i))}

LetBindings(n, captures) ==
    LET d == IF captures THEN 0 ELSE n IN
    {[i \in 1..n |-> ASTLetBinding(EnvBinding(LetType(captures), 0, i - 1),
                                   q[i])] :
       q \in SeqsOf(n, LAMBDA i : LetInits(i, d))}

LetBodies(n, captures) ==
    LET d == IF captures THEN 0 ELSE n IN
    {<<Tagged(5, Number(5), d)>>,
     <<Tagged(4, Number(4), d),
       ASTLet(FALSE, FALSE,
              <<ASTLetBinding(EnvBinding(TypeStack, d, 0),
                              Tagged(6, Number(6), d + 1))>>,
              <<ASTIdentifier("y", EnvBinding(TypeStack, d, 0))>>)>>} \cup
    {<<ASTCond(<<ASTCondChoice(Tagged(10, v, d),
                               ASTIdentifier("pack", NoBinding),
                               EnvFrame(d), EnvFrame(d + 2), <<>>)>>,
               FALSE, FALSE)>> : v \in {Boolean(FALSE), Number(1)}} \cup
    (IF n > 0
     THEN {<<ASTIdentifier("x", EnvBinding(LetType(captures), 0, 0))>>}
     ELSE {})

LetInputs ==
    UNION {{ASTLet(captures, FALSE, bindings, body) :
              bindings \in LetBindings(n, captures),
              body \in LetBodies(n, captures)} :
           n \in 0..MaxBindings, captures \in BOOLEAN}

Inputs == CallInputs \cup IfInputs \cup AndOrInputs \cup CondInputs
          \cup CaseInputs \cup LetInputs

InitAST ==
    /\ runner = RunnerIdle
    /\ scm = ScmIdle
    /\ call = CallIdle
    /\ symbols = RunSymbols.symbols
    /\ nextId = RunSymbols.nextId
    /\ interned = {}
    /\ lastOp = NoOp
    /\ vm = VmIdle
    /\ native = <<>>
    /\ \E ast \in Inputs :
          run = [state |-> "new", ast |-> ast, code |-> <<>>, pc |-> 0,
                 fp |-> 0, accu |-> Nil, stack |-> <<>>, env |-> <<>>]

NextAST ==
    \/ Compile
    \/ RunConst
    \/ RunGlobal
    \/ RunLocal
    \/ RunLocalSet
    \/ RunEnv
    \/ RunEnvSet
    \/ RunPushS
    \/ RunPopS
    \/ RunPushF
    \/ RunCall
    \/ RunIf
    \/ RunIfNot
    \/ RunJmp
    \/ RunLabel
    \/ RunReturn

SpecAST == InitAST /\ [][NextAST]_vars

(***************************************************************************)
(* Claims about lowered code, checked under SpecAST.                       *)
(***************************************************************************)
Done == run.state = "done"

Crashed == run.state \in {"error", "panic"}

IsPrefix(s, t) == Len(s) <= Len(t) /\ SubSeq(t, 1, Len(s)) = s

IsTagged(e) ==
    e.kind = "call" /\ e.Func = ASTIdentifier("tag", NoBinding)

\* What the native history holds for one invocation.
Invocation(name, args) == [lambda |-> symbols[name].Global, args |-> args]

\* The invocation that evaluating (tag k v) makes.
TagInvocation(e) == Invocation("tag", <<e.Args[1].Value, e.Args[2].Value>>)

\* The tags of the (tag k v) expressions evaluated so far.
EvaluatedTags ==
    {native[i].args[1].n :
       i \in {j \in DOMAIN native : native[j].lambda.Name = "tag"}}

TimesEvaluated(k) ==
    Cardinality({i \in DOMAIN native :
                   native[i].lambda.Name = "tag"
                   /\ native[i].args[1] = Number(k)})

\* The value and the native invocations of an argument expression: a
\* constant, (tag k v), or a nested call of pack.
RECURSIVE ArgValue(_)
ArgValue(a) ==
    IF a.kind = "constant" THEN a.Value
    ELSE NativeApply(a.Func.Name,
                     [i \in 1..Len(a.Args) |-> ArgValue(a.Args[i])])

RECURSIVE ArgTrace(_)
RECURSIVE ArgsTrace(_, _)
ArgsTrace(args, i) ==
    IF i > Len(args) THEN <<>>
    ELSE ArgTrace(args[i]) \o ArgsTrace(args, i + 1)

ArgTrace(a) ==
    IF a.kind = "constant" THEN <<>>
    ELSE ArgsTrace(a.Args, 1) \o
         <<Invocation(a.Func.Name,
                      [i \in 1..Len(a.Args) |-> ArgValue(a.Args[i])])>>

\* The calls (f a1 ... an) of a defined native f that accepts n arguments.
C6_Case ==
    /\ run.ast \in CallInputs
    /\ run.ast.Func.kind = "identifier"
    /\ \/ run.ast.Func.Name = "pack"
       \/ run.ast.Func.Name = "tag" /\ Len(run.ast.Args) = 2

RECURSIVE IfValue(_)
IfValue(e) ==
    IF e.kind = "constant" THEN e.Value
    ELSE IF e.kind = "if"
    THEN IF IfValue(e.Cond) = Boolean(FALSE)
         THEN IfValue(e.False) ELSE IfValue(e.True)
    ELSE e.Args[2].Value

RECURSIVE TagsIn(_)
TagsIn(e) ==
    IF e.kind = "if"
    THEN TagsIn(e.Cond) \cup TagsIn(e.True) \cup TagsIn(e.False)
    ELSE IF e.kind = "call" THEN {e.Args[1].Value.n}
    ELSE {}

\* The programs (if c a b) and (if c a) whose condition lowers.
C7_Case == run.ast \in IfInputs /\ run.ast.Cond # ASTFailing

\* C7: the code lowered from (if c a b) executes exactly one branch.  When
\* c evaluates to #f nothing of a is ever evaluated, and the run ends with
\* b evaluated and b's value in accu; when c evaluates to anything else
\* nothing of b is ever evaluated, and the run ends with a evaluated and
\* a's value in accu.  c is evaluated once and the run does not fail.
C7_IfOneBranch ==
    C7_Case =>
      LET ast == run.ast
          c == IfValue(ast.Cond)
          chosen == IF c = Boolean(FALSE) THEN ast.False ELSE ast.True
          other == IF c = Boolean(FALSE) THEN ast.True ELSE ast.False
      IN /\ ~Crashed
         /\ EvaluatedTags \cap TagsIn(other) = {}
         /\ \A k \in TagsIn(ast) : TimesEvaluated(k) <= 1
         /\ (Done /\ chosen # NoAST) =>
               /\ EvaluatedTags \cap TagsIn(chosen) # {}
               /\ run.accu = IfValue(chosen)
               /\ \A k \in TagsIn(ast.Cond) : TimesEvaluated(k) = 1

\* C7 witness: (if (tag 0 #f) (tag 1 1) (tag 2 2)) has run to its end with
\* only the condition and the else branch evaluated and 2 in accu.
C7_Witness ==
    /\ Done
    /\ C7_Case
    /\ run.ast.Cond = Tagged(0, Boolean(FALSE), 0)
    /\ run.ast.True = Tagged(1, Number(1), 0)
    /\ run.ast.False = Tagged(2, Number(2), 0)
    /\ EvaluatedTags = {0, 2}
    /\ run.accu = Number(2)

\* The values of e1 ... en of an and/or program, and the index of the
\* deciding expression: the first that is #f for and, the first that is
\* not #f for or, else the last.
AndOrValue(ast, i) == ast.Exprs[i].Args[2].Value

Decides(ast, i) ==
    IF ast.kind = "and"
    THEN AndOrValue(ast, i) = Boolean(FALSE)
    ELSE AndOrValue(ast, i) # Boolean(FALSE)

Deciding(ast) ==
    IF \E i \in 1..Len(ast.Exprs) : Decides(ast, i)
    THEN CHOOSE i \in 1..Len(ast.Exprs) :
            Decides(ast, i) /\ \A j \in 1..(i - 1) : ~Decides(ast, j)
    ELSE Len(ast.Exprs)

\* C8: (and) yields #t and (or) yields #f with nothing evaluated.  The
\* code lowered from (and e1 ... en) or (or e1 ... en), n > 0, evaluates
\* e1, e2, ... in this order up to the deciding expression and no further,
\* each once, and yields the deciding expression's value.
C8_AndOrShortCircuit ==
    (run.ast \in AndOrInputs) =>
      LET ast == run.ast
          d == Deciding(ast)
      IN /\ ~Crashed
         /\ IsPrefix(native,
                     [i \in 1..d |-> TagInvocation(ast.Exprs[i])])
         /\ Done =>
               /\ Len(native) = d
               /\ run.accu = IF Len(ast.Exprs) = 0
                             THEN Boolean(ast.kind = "and")
                             ELSE AndOrValue(ast, d)

\* C8 witness: (and (tag 1 1) (tag 2 #f) (tag 3 #t)) has run to its end: the
\* first two expressions were evaluated, the third was not, accu is #f.
C8_Witness ==
    /\ Done
    /\ run.ast = ASTAnd(<<Tagged(1, Number(1), 0),
                          Tagged(2, Boolean(FALSE), 0),
                          Tagged(3, Boolean(TRUE), 0)>>)
    /\ EvaluatedTags = {1, 2}
    /\ run.accu = Boolean(FALSE)

\* A cond clause of the form (test => f), and whether clause i is reached:
\* every earlier test evaluates to #f.
IsArrow(choice) == choice.Func # NoAST

TestValue(choice) == choice.Cond.Args[2].Value

CondReached(ast, i) ==
    \A j \in 1..(i - 1) : TestValue(ast.Choices[j]) = Boolean(FALSE)

\* The native invocations of clause i on: the test's; then, if the test is
\* #f, those of the next clause, else those of the clause itself, which
\* for (test => f) are f's evaluation and the call of f with the test's
\* value.
RECURSIVE CondTrace(_, _)
CondTrace(ast, i) ==
    IF i > Len(ast.Choices) THEN <<>>
    ELSE LET choice == ast.Choices[i] IN
         IF choice.Cond = NoAST
         THEN <<TagInvocation(choice.Exprs[1])>>
         ELSE <<TagInvocation(choice.Cond)>> \o
              (IF TestValue(choice) = Boolean(FALSE)
               THEN CondTrace(ast, i + 1)
               ELSE IF IsArrow(choice)
               THEN (IF choice.Func.kind = "call"
                     THEN <<TagInvocation(choice.Func)>> ELSE <<>>)
                    \o <<Invocation("pack", <<TestValue(choice)>>)>>
               ELSE <<TagInvocation(choice.Exprs[1])>>)

\* The cond programs with a clause (test => f).
C9_Case ==
    /\ run.ast \in CondInputs
    /\ \E i \in DOMAIN run.ast.Choices : IsArrow(run.ast.Choices[i])

KeyValue(ast) ==
    IF ast.Expr.kind = "constant" THEN ast.Expr.Value
    ELSE ast.Expr.Args[2].Value

KeyTrace(ast) ==
    IF ast.Expr.kind = "constant" THEN <<>>
    ELSE <<TagInvocation(ast.Expr)>>

\* The position of the first datum of the clause that is eqv? to the key,
\* or 0.
FirstMatch(ast, choice) ==
    IF \E k \in DOMAIN choice.Datums : choice.Datums[k] = KeyValue(ast)
    THEN CHOOSE k \in DOMAIN choice.Datums :
            /\ choice.Datums[k] = KeyValue(ast)
            /\ \A l \in 1..(k - 1) : choice.Datums[l] # KeyValue(ast)
    ELSE 0

\* The first clause, in source order, with a datum eqv? to the key or with
\* no datums (else); 0 if there is none.
Selected(ast) ==
    LET sel == {i \in DOMAIN ast.Choices :
                  \/ ast.Choices[i].Datums = <<>>
                  \/ FirstMatch(ast, ast.Choices[i]) > 0}
    IN IF sel = {} THEN 0
       ELSE CHOOSE i \in sel : \A j \in sel : i <= j

\* The comparisons (eqv? key datum) of clause i: all of its datums when
\* none matches, else those up to the first match.
Comparisons(ast, i) ==
    LET choice == ast.Choices[i]
        m == FirstMatch(ast, choice)
        last == IF m = 0 THEN Len(choice.Datums) ELSE m
    IN [k \in 1..last |->
          Invocation("eqv?", <<KeyValue(ast), choice.Datums[k]>>)]

RECURSIVE CaseTrace(_, _)
CaseTrace(ast, i) ==
    IF i > Len(ast.Choices) THEN <<>>
    ELSE Comparisons(ast, i) \o
         (IF i = Selected(ast)
          THEN <<TagInvocation(ast.Choices[i].Exprs[1])>>
          ELSE CaseTrace(ast, i + 1))

C11_Case ==
    /\ run.ast.kind \in {"let", "cond", "case"}
    /\ ~run.ast.Tail

MaxFiles == 2

MaxEvals == 2

Entries ==
    {[scm |-> FALSE, readErr |-> FALSE, evalErr |-> FALSE],
     [scm |-> TRUE, readErr |-> FALSE, evalErr |-> FALSE],
     [scm |-> TRUE, readErr |-> TRUE, evalErr |-> FALSE],
     [scm |-> TRUE, readErr |-> FALSE, evalErr |-> TRUE]}

RuntimeDirs == UNION {[1..n -> Entries] : n \in 0..MaxFiles}

\* scm.eval: Load, then Library.Compile and Apply of the compiled init.
EvalDirect(who, file, loadErr) ==
    [who |-> who, file |-> file, path |-> "eval",
     applied |-> IF loadErr THEN "none" ELSE "compiled", err |-> loadErr]

\* scm.evalRuntime: Load, then Apply of the global scheme::init-library.
EvalRuntime(who, file, loadErr) ==
    [who |-> who, file |-> file, path |-> "evalRuntime",
     applied |-> IF loadErr THEN "none" ELSE "scheme::init-library",
     err |-> loadErr]

\* Scheme.Eval: the path taken.
EvalOfMutantDirect(s, who, file, loadErr) == EvalDirect(who, file, loadErr)

EvalOf(s, who, file, loadErr) ==
    IF s.hasRuntime
    THEN EvalRuntime(who, file, loadErr)
    ELSE EvalDirect(who, file, loadErr)

\* NewWithParams: the builtins are defined; with NoRuntime the interpreter
\* is returned at once, else loadRuntime starts with ReadDir.
NewWithParams(noRuntime, dir, readDirErr) ==
    /\ scm.state = "new"
    /\ symbols' = RunSymbols.symbols
    /\ nextId' = RunSymbols.nextId
    /\ scm' = [state |-> IF noRuntime THEN "ready"
                         ELSE IF readDirErr THEN "failed" ELSE "loading",
               NoRuntime |-> noRuntime, dir |-> dir, idx |-> 0,
               hasRuntime |-> FALSE, log |-> <<>>, evals |-> 0]
    /\ UNCHANGED <<interned, lastOp, vm, native, run, call, runner>>

\* One round of the loop of loadRuntime: an entry without the suffix is
\* skipped; a .scm file is read and evaluated with scm.eval; an error ends
\* loadRuntime and NewWithParams returns no interpreter.
LoadRuntimeEntry ==
    /\ scm.state = "loading"
    /\ scm.idx < Len(scm.dir)
    /\ LET entry == scm.dir[scm.idx + 1] IN
       scm' = IF ~entry.scm THEN [scm EXCEPT !.idx = @ + 1]
              ELSE IF entry.readErr THEN [scm EXCEPT !.state = "failed"]
              ELSE LET e == EvalDirect("loadRuntime", scm.idx + 1,
                                       entry.evalErr)
                   IN IF entry.evalErr
                      THEN [scm EXCEPT !.state = "failed",
                                       !.log = Append(@, e)]
                      ELSE [scm EXCEPT !.idx = @ + 1,
                                       !.log = Append(@, e)]
    /\ UNCHANGED <<symbols, nextId, interned, lastOp, vm, native, run, call, runner>>

\* The end of loadRuntime: scm.hasRuntime = true.
LoadRuntimeDone ==
    /\ scm.state = "loading"
    /\ scm.idx = Len(scm.dir)
    /\ scm' = [scm EXCEPT !.hasRuntime = TRUE, !.state = "ready"]
    /\ UNCHANGED <<symbols, nextId, interned, lastOp, vm, native, run, call, runner>>

\* Scheme.Eval of user code; evalRuntime interns scheme::init-library once
\* the source is loaded.
Eval(loadErr) ==
    /\ scm.state = "ready"
    /\ scm.evals < MaxEvals
    /\ LET e == EvalOf(scm, "Eval", 0, loadErr)
           r == IF e.applied = "scheme::init-library"
                THEN InternOf(symbols, "scheme::init-library", nextId)
                ELSE [symbols |-> symbols, nextId |-> nextId]
       IN /\ scm' = [scm EXCEPT !.log = Append(@, e), !.evals = @ + 1]
          /\ symbols' = r.symbols
          /\ nextId' = r.nextId
    /\ UNCHANGED <<interned, lastOp, vm, native, run, call, runner>>

InitEval ==
    /\ runner = RunnerIdle
    /\ symbols = <<>>
    /\ nextId = 1
    /\ interned = {}
    /\ lastOp = NoOp
    /\ vm = VmIdle
    /\ native = <<>>
    /\ run = RunIdle
    /\ scm = [state |-> "new"]
    /\ call = CallIdle

NextEval ==
    \/ \E noRuntime \in BOOLEAN, dir \in RuntimeDirs, readDirErr \in BOOLEAN :
          NewWithParams(noRuntime, dir, readDirErr)
    \/ LoadRuntimeEntry
    \/ LoadRuntimeDone
    \/ \E loadErr \in BOOLEAN : Eval(loadErr)

SpecEval == InitEval /\ [][NextEval]_vars

\* The runtime has been loaded completely: loadRuntime was asked for and
\* every .scm file of the directory has been evaluated without error.
RuntimeFiles(s) == {k \in DOMAIN s.dir : s.dir[k].scm}

LoadedFiles(s) ==
    {s.log[k].file :
       k \in {j \in DOMAIN s.log :
                s.log[j].who = "loadRuntime" /\ ~s.log[j].err}}

LoadedCompletely(s) ==
    /\ s.state = "ready"
    /\ ~s.NoRuntime
    /\ LoadedFiles(s) = RuntimeFiles(s)

\* C13: Eval routing.  Every Eval of user code goes through evalRuntime,
\* and applies scheme::init-library when the source loads, exactly when
\* the runtime has been loaded completely, and else takes the direct
\* path; every runtime file is evaluated by the direct path; hasRuntime
\* becomes true only when all runtime files have been evaluated without
\* error; with NoRuntime every Eval takes the direct path.
C13_EvalRouting ==
    /\ [][\A loadErr \in BOOLEAN :
            Eval(loadErr) =>
              LET e == scm'.log[Len(scm'.log)] IN
              /\ e.who = "Eval"
              /\ (e.path = "evalRuntime") <=> LoadedCompletely(scm)
              /\ (e.path = "eval") <=> ~LoadedCompletely(scm)
              /\ ~loadErr =>
                    e.applied = IF LoadedCompletely(scm)
                                THEN "scheme::init-library"
                                ELSE "compiled"]_vars
    /\ [](scm.state # "new" =>
            /\ \A k \in DOMAIN scm.log :
                  /\ scm.log[k].who = "loadRuntime" => scm.log[k].path = "eval"
                  /\ scm.NoRuntime => scm.log[k].path = "eval"
            /\ scm.hasRuntime => LoadedCompletely(scm))

\* C13 witness: two runtime files were evaluated by the direct path, the
\* runtime is loaded, and an Eval of user code has gone through
\* scheme::init-library.
C13_Witness ==
    /\ scm.state = "ready"
    /\ scm.hasRuntime
    /\ Len(scm.log) = 3
    /\ scm.log[1].who = "loadRuntime" /\ scm.log[1].path = "eval"
    /\ scm.log[2].who = "loadRuntime" /\ scm.log[2].path = "eval"
    /\ scm.log[3].who = "Eval"
    /\ scm.log[3].applied = "scheme::init-library"

(***************************************************************************)
(* Library values and functions.  A Go string is a sequence of bytes; a    *)
(* bytevector is a slice, whose identity is its backing array (ref).  The  *)
(* arguments of a call are drawn by the initial state; one action per      *)
(* function applies it.                                                    *)
(***************************************************************************)
MaxLen == 2

MaxStr == 3

String(bytes) == [t |-> "string", bytes |-> bytes]

ByteVector(ref, bytes) == [t |-> "bytevector", ref |-> ref, bytes |-> bytes]

\* What a native or a method returns: a value, an error, or a Go panic.
Ok(v) == [ok |-> TRUE, value |-> v, panic |-> FALSE]

Err(msg) ==
    [ok |-> FALSE, value |-> [t |-> "error", msg |-> msg], panic |-> FALSE]

HostPanic(msg) ==
    [ok |-> FALSE, value |-> [t |-> "panic", msg |-> msg], panic |-> TRUE]

\* UTF-8: string(rune) and the decoding step of []rune(string).
RuneError == 65533

RuneBytes(r) ==
    IF r < 128 THEN <<r>>
    ELSE IF r < 2048 THEN <<192 + (r \div 64), 128 + (r % 64)>>
    ELSE <<224 + (r \div 4096), 128 + ((r \div 64) % 64), 128 + (r % 64)>>

IsCont(b) == b >= 128 /\ b < 192

RECURSIVE EncodeRunes(_)
EncodeRunes(runes) ==
    IF runes = <<>> THEN <<>>
    ELSE RuneBytes(Head(runes)) \o EncodeRunes(Tail(runes))

RECURSIVE DecodeRunes(_)
DecodeRunes(bytes) ==
    IF bytes = <<>> THEN <<>>
    ELSE LET b == bytes[1]
             n == Len(bytes)
         IN IF b < 128
            THEN <<b>> \o DecodeRunes(Tail(bytes))
            ELSE IF b >= 194 /\ b < 224 /\ n >= 2 /\ IsCont(bytes[2])
            THEN <<(b - 192) * 64 + (bytes[2] - 128)>>
                 \o DecodeRunes(SubSeq(bytes, 3, n))
            ELSE IF /\ b >= 224 /\ b < 240 /\ n >= 3
                    /\ IsCont(bytes[2]) /\ IsCont(bytes[3])
                    /\ b = 224 => bytes[2] >= 160
                    /\ b = 237 => bytes[2] < 160
            THEN <<(b - 224) * 4096 + (bytes[2] - 128) * 64
                   + (bytes[3] - 128)>>
                 \o DecodeRunes(SubSeq(bytes, 4, n))
            ELSE <<RuneError>> \o DecodeRunes(Tail(bytes))

\* String.Equal and String.Eq.
StringEqual(v, o) == o.t = "string" /\ v.bytes = o.bytes

StringEq(v, o) == StringEqual(v, o)

\* ByteVector.Eq: true for two bytevectors of length 0 only.
ByteVectorEq(v, o) ==
    IF o.t # "bytevector" THEN FALSE
    ELSE IF Len(v.bytes) = 0 /\ Len(o.bytes) = 0 THEN TRUE
    ELSE FALSE

ByteVectorEqualMutantPrefix(v, o) ==
    /\ o.t = "bytevector"
    /\ \A idx \in DOMAIN v.bytes :
          idx \in DOMAIN o.bytes /\ v.bytes[idx] = o.bytes[idx]

ByteVectorEqual(v, o) ==
    IF o.t # "bytevector" \/ Len(v.bytes) # Len(o.bytes) THEN FALSE
    ELSE \A idx \in DOMAIN v.bytes : v.bytes[idx] = o.bytes[idx]

\* The method the Value interface dispatches to.
Eq(v, o) == IF v.t = "string" THEN StringEq(v, o) ELSE ByteVectorEq(v, o)

Equal(v, o) ==
    IF v.t = "string" THEN StringEqual(v, o) ELSE ByteVectorEqual(v, o)

\* types.Enum and Enum.Super.
Enums ==
    {"any", "bool", "string", "char", "symbol", "bytevector", "number",
     "#eint", "int", "#efloat", "float", "port", "lambda", "pair", "list",
     "vector"}

Enum(e) == [t |-> "enum", e |-> e]

Super(e) ==
    CASE e \in {"#eint", "#efloat"} -> "number"
      [] e = "int" -> "#eint"
      [] e = "float" -> "#efloat"
      [] OTHER -> "any"

\* Enum.Unify: the inner loop walks o up to any, the outer loop walks e.
RECURSIVE UnifyInner(_, _)
UnifyInner(eIter, oIter) ==
    IF eIter = oIter THEN TRUE
    ELSE IF oIter = "any" THEN FALSE
    ELSE UnifyInner(eIter, Super(oIter))

RECURSIVE UnifyOuter(_, _)
UnifyOuter(eIter, o) ==
    IF UnifyInner(eIter, o) THEN eIter ELSE UnifyOuter(Super(eIter), o)

UnifyMutantFromSuper(e, o) == UnifyOuter(Super(e), o)

Unify(e, o) == UnifyOuter(e, o)

\* Int64: the value of a number, or an error for any other value.
Int64(v) ==
    IF v.t = "num" THEN [err |-> FALSE, n |-> v.n]
    ELSE [err |-> TRUE, n |-> 0]

\* byte(f), int(uint8(b)) and int(int8(b)).
Byte(f) == f % 256

Uint8(b) == b

Int8(b) == IF b >= 128 THEN b - 256 ELSE b

\* The check of the fill argument of make-bytevector and bytevector-fill.
InvalidFillMutantByte(fill) ==
    LET f == Int64(fill) IN f.err \/ f.n < 0 \/ f.n > 255

InvalidFill(fill) ==
    LET f == Int64(fill) IN f.err \/ f.n < -128 \/ f.n > 255

\* make-bytevector: the result, a new bytevector.
MakeBytevector(args) ==
    LET length == Int64(args[1]) IN
    IF length.err \/ length.n < 0 THEN Err("negative length")
    ELSE IF Len(args) = 2 /\ InvalidFill(args[2]) THEN Err("invalid fill")
    ELSE LET fill == IF Len(args) = 2 THEN Byte(Int64(args[2]).n) ELSE 0
         IN Ok(ByteVector(0, [i \in 1..length.n |-> fill]))

\* bytevector-fill: the result, and the bytes of args[0] after the call.
BytevectorFill(args) ==
    LET v == args[1] IN
    IF v.t # "bytevector"
    THEN [result |-> Err("invalid bytevector"), after |-> v]
    ELSE IF InvalidFill(args[2])
    THEN [result |-> Err("invalid fill"), after |-> v]
    ELSE LET fill == Byte(Int64(args[2]).n)
             w == ByteVector(v.ref, [i \in DOMAIN v.bytes |-> fill])
         IN [result |-> Ok(w), after |-> w]

\* math.MaxInt64, with int64 cut to 8 bits.
MaxInt64 == 127

\* a + b on int64: the sum wraps around.
Add64(a, b) ==
    LET sum == a + b IN
    IF sum > MaxInt64 THEN sum - 2 * (MaxInt64 + 1)
    ELSE IF sum < -MaxInt64 - 1 THEN sum + 2 * (MaxInt64 + 1)
    ELSE sum

\* b[low:high] of a slice whose capacity is its length: TRUE iff the
\* slice expression panics.
SlicePanics(b, low, high) == ~(0 <= low /\ low <= high /\ high <= Len(b))

\* bytevector-copy!: the result, and the bytes of the target after the
\* call.
BytevectorCopy(args) ==
    LET source == args[1]
        target == args[3]
        sourceStart == Int64(args[2])
        targetStart == Int64(args[4])
        k == Int64(args[5])
    IN IF source.t # "bytevector"
       THEN [result |-> Err("invalid source"), after |-> target]
       ELSE IF target.t # "bytevector"
       THEN [result |-> Err("invalid target"), after |-> target]
       ELSE IF sourceStart.err \/ sourceStart.n < 0
       THEN [result |-> Err("invalid source-start"), after |-> target]
       ELSE IF targetStart.err \/ targetStart.n < 0
       THEN [result |-> Err("invalid target-start"), after |-> target]
       ELSE IF k.err \/ k.n < 0
       THEN [result |-> Err("invalid k"), after |-> target]
       ELSE IF Add64(sourceStart.n, k.n) > Len(source.bytes)
       THEN [result |-> Err("invalid source range"), after |-> target]
       ELSE IF Add64(targetStart.n, k.n) > Len(target.bytes)
       THEN [result |-> Err("invalid target range"), after |-> target]
       ELSE IF \/ SlicePanics(target.bytes, targetStart.n,
                              Add64(targetStart.n, k.n))
               \/ SlicePanics(source.bytes, sourceStart.n,
                              Add64(sourceStart.n, k.n))
       THEN [result |-> HostPanic("slice bounds out of range"),
             after |-> target]
       ELSE [result |-> Ok(Nil),
             after |-> ByteVector(target.ref,
                         [i \in DOMAIN target.bytes |->
                            IF i > targetStart.n /\ i <= targetStart.n + k.n
                            THEN source.bytes[sourceStart.n + (i - targetStart.n)]
                            ELSE target.bytes[i]])]

\* bytevector-u8-ref and bytevector-s8-ref.
BytevectorU8Ref(args) ==
    LET v == args[1]
        k == Int64(args[2])
    IN IF v.t # "bytevector" THEN Err("not a bytevector")
       ELSE IF k.err THEN Err("invalid index")
       ELSE IF k.n < 0 \/ k.n >= Len(v.bytes) THEN Err("invalid index")
       ELSE Ok(Number(Uint8(v.bytes[k.n + 1])))

BytevectorS8Ref(args) ==
    LET v == args[1]
        k == Int64(args[2])
    IN IF v.t # "bytevector" THEN Err("not a bytevector")
       ELSE IF k.err THEN Err("invalid index")
       ELSE IF k.n < 0 \/ k.n >= Len(v.bytes) THEN Err("invalid index")
       ELSE Ok(Number(Int8(v.bytes[k.n + 1])))

\* string-length: the number of runes.
StringLength(args) ==
    IF args[1].t = "string"
    THEN Ok(Number(Len(DecodeRunes(args[1].bytes))))
    ELSE Err("invalid argument")

\* str[start:end] of a rune slice of capacity cap: the elements between
\* the length and the capacity are zero; past the capacity the slice
\* expression panics.
SliceRunes(str, start, end, cap) ==
    IF end > cap THEN HostPanic("slice bounds out of range")
    ELSE Ok(String(EncodeRunes(
            [i \in 1..(end - start) |->
                IF start + i <= Len(str) THEN str[start + i] ELSE 0])))

\* substring: the indices are checked against len(strv), the length in
\* bytes, and the slice is taken of the runes.  The capacity of
\* []rune(string) is at least its length, and is not specified further:
\* every capacity up to the length in bytes is an outcome.
Substring(args) ==
    LET strv == args[1]
        start == Int64(args[2])
        end == Int64(args[3])
    IN IF strv.t # "string" THEN {Err("invalid string")}
       ELSE IF start.err THEN {Err("invalid start index")}
       ELSE IF end.err THEN {Err("invalid end index")}
       ELSE IF start.n < 0 \/ end.n < start.n \/ end.n > Len(strv.bytes)
       THEN {Err("invalid indices")}
       ELSE LET str == DecodeRunes(strv.bytes) IN
            {SliceRunes(str, start.n, end.n, cap) :
                cap \in Len(str)..Len(strv.bytes)}

\* print-env.  The flags of the arguments; no argument sets every flag.
fLambda == "fLambda"

fNative == "fNative"

fScheme == "fScheme"

Identifier(name) == [t |-> "symbol", name |-> name]

Keyword(kw) == [t |-> "keyword", kw |-> kw]

KwLambda == Keyword("lambda")

RECURSIVE PrintEnvFlags(_)
PrintEnvFlags(args) ==
    IF args = <<>> THEN [err |-> FALSE, flags |-> {}]
    ELSE LET arg == Head(args)
             rest == PrintEnvFlags(Tail(args))
             flag == IF arg.t = "symbol" /\ arg.name = "native" THEN {fNative}
                     ELSE IF arg.t = "symbol" /\ arg.name = "scheme"
                     THEN {fScheme}
                     ELSE IF arg = KwLambda THEN {fLambda}
                     ELSE {}
         IN IF flag = {} THEN [err |-> TRUE, flags |-> {}]
            ELSE [rest EXCEPT !.flags = @ \cup flag]

\* The test of the loop over scm.symbols.
PrintEnvMatch(flags, val) ==
    IF val.t = "lambda"
    THEN /\ fLambda \in flags
         /\ \/ flags \cap {fNative, fScheme} = {}
            \/ val.Native # "" /\ fNative \in flags
            \/ val.Native = "" /\ fScheme \in flags
    ELSE fLambda \notin flags

\* sort.Strings over the names of the model, which are single letters.
NameRank(name) ==
    CASE name = "a" -> 1 [] name = "b" -> 2 [] name = "c" -> 3 [] OTHER -> 4

RECURSIVE SortStrings(_)
SortStrings(names) ==
    IF names = {} THEN <<>>
    ELSE LET first == CHOOSE n \in names :
                         \A m \in names : NameRank(n) <= NameRank(m)
         IN <<first>> \o SortStrings(names \ {first})

\* print-env: the result and the names printed.
PrintEnv(syms, args) ==
    LET f == IF Len(args) = 0
             THEN [err |-> FALSE, flags |-> {fLambda, fNative, fScheme}]
             ELSE PrintEnvFlags(args)
    IN IF f.err THEN [result |-> Err("unknown flag"), names |-> <<>>]
       ELSE [result |-> Ok(Nil),
             names |-> SortStrings(
                 {k \in DOMAIN syms :
                     /\ syms[k].Global # Nil
                     /\ PrintEnvMatch(f.flags, syms[k].Global)})]

(***************************************************************************)
(* The arguments the library functions are called with.                    *)
(***************************************************************************)
Chars == {97, 945}

RuneSeqs == UNION {[1..n -> Chars] : n \in 0..MaxStr}

Strings == {String(EncodeRunes(r)) : r \in RuneSeqs}

ByteSeqs == UNION {[1..n -> {1, 200}] : n \in 0..MaxLen}

ByteVectors == {ByteVector(ref, b) : ref \in {1, 2}, b \in ByteSeqs}

\* Two values that are one object hold the same bytes.
EqInputs ==
    {a \in (Strings \cup ByteVectors) \X (Strings \cup ByteVectors) :
        (a[1].t = "bytevector" /\ a[2].t = "bytevector"
         /\ a[1].ref = a[2].ref) => a[1].bytes = a[2].bytes}

UnifyInputs == {<<Enum(a), Enum(b)>> : a, b \in Enums}

FillValues ==
    {Number(f) : f \in {-129, -128, -1, 0, 127, 128, 255, 256}} \cup {Nil}

Indices == {Number(n) : n \in -1..MaxLen} \cup {Nil}

MakeInputs ==
    {<<k>> : k \in Indices} \cup {<<k, f>> : k \in Indices, f \in FillValues}

FillInputs ==
    {<<v, f>> : v \in {w \in ByteVectors : w.ref = 1} \cup {Nil},
                f \in FillValues}

RefInputs ==
    {<<v, k>> : v \in {w \in ByteVectors : w.ref = 1} \cup {Nil},
                k \in Indices}

StringIndices == {Number(n) : n \in -1..(2 * MaxStr + 1)} \cup {Nil}

SubstringInputs ==
    {<<s, start, end>> : s \in Strings \cup {Nil},
                         start \in StringIndices, end \in StringIndices}

StringLengthInputs == {<<s>> : s \in Strings \cup {Number(1)}}

PrintEnvFlagValues ==
    {Identifier("native"), Identifier("scheme"), KwLambda,
     Identifier("other"), Number(1)}

PrintEnvInputs == UNION {[1..n -> PrintEnvFlagValues] : n \in 0..2}

\* The global values of the symbols print-env walks: none, a number, a
\* native lambda, a lambda defined in Scheme.
GlobalValues == {Nil, Number(1), Lambda("f", 0, 0, "nf"), Lambda("g", 0, 0, "")}

SymbolTables ==
    {[n \in Names |-> [NewIdentifier(NameRank(n)) EXCEPT !.Global = g[n]]] :
        g \in [Names -> GlobalValues]}

\* Targets hold bytes that no source holds.
CopyTargets ==
    {ByteVector(2, [i \in 1..n |-> 10 + i]) : n \in 0..MaxLen} \cup {Nil}

CopyIndices ==
    {Number(n) : n \in (-1..(MaxLen + 1)) \cup {MaxInt64 - 1, MaxInt64}}
    \cup {Nil}

CopyInputs ==
    {<<source, sourceStart, target, targetStart, k>> :
        source \in {w \in ByteVectors : w.ref = 1} \cup {Nil},
        sourceStart \in CopyIndices, target \in CopyTargets,
        targetStart \in CopyIndices, k \in CopyIndices}

LibInputs ==
    EqInputs \cup UnifyInputs \cup MakeInputs \cup FillInputs \cup RefInputs
    \cup SubstringInputs \cup StringLengthInputs \cup CopyInputs

NewCall(args) == [fn |-> "none", args |-> args, result |-> Nil, out |-> Nil]

IsValues(args) == \A i \in DOMAIN args : args[i].t # "enum"

LibUnchanged ==
    UNCHANGED <<symbols, nextId, interned, lastOp, vm, native, run, scm, runner>>

Called(fn, result, out) ==
    /\ call' = [call EXCEPT !.fn = fn, !.result = result, !.out = out]
    /\ LibUnchanged

ApplyEq ==
    /\ call.fn = "none" /\ Len(call.args) = 2 /\ IsValues(call.args)
    /\ call.args[1].t \in {"string", "bytevector"}
    /\ Called("Eq", Ok(Boolean(Eq(call.args[1], call.args[2]))), Nil)

ApplyEqual ==
    /\ call.fn = "none" /\ Len(call.args) = 2 /\ IsValues(call.args)
    /\ call.args[1].t \in {"string", "bytevector"}
    /\ Called("Equal", Ok(Boolean(Equal(call.args[1], call.args[2]))), Nil)

ApplyUnify ==
    /\ call.fn = "none" /\ Len(call.args) = 2 /\ ~IsValues(call.args)
    /\ Called("Unify", Ok(Enum(Unify(call.args[1].e, call.args[2].e))), Nil)

ApplyMakeBytevector ==
    /\ call.fn = "none" /\ Len(call.args) \in 1..2 /\ IsValues(call.args)
    /\ Called("make-bytevector", MakeBytevector(call.args), Nil)

ApplyBytevectorFill ==
    /\ call.fn = "none" /\ Len(call.args) = 2 /\ IsValues(call.args)
    /\ LET r == BytevectorFill(call.args)
       IN Called("bytevector-fill", r.result, r.after)

ApplyBytevectorU8Ref ==
    /\ call.fn = "none" /\ Len(call.args) = 2 /\ IsValues(call.args)
    /\ Called("bytevector-u8-ref", BytevectorU8Ref(call.args), Nil)

ApplyBytevectorS8Ref ==
    /\ call.fn = "none" /\ Len(call.args) = 2 /\ IsValues(call.args)
    /\ Called("bytevector-s8-ref", BytevectorS8Ref(call.args), Nil)

ApplyStringLength ==
    /\ call.fn = "none" /\ Len(call.args) = 1 /\ IsValues(call.args)
    /\ Called("string-length", StringLength(call.args), Nil)

ApplySubstring ==
    /\ call.fn = "none" /\ Len(call.args) = 3 /\ IsValues(call.args)
    /\ \E r \in Substring(call.args) : Called("substring", r, Nil)

ApplyPrintEnv ==
    /\ call.fn = "none" /\ IsValues(call.args)
    /\ LET r == PrintEnv(symbols, call.args)
       IN Called("print-env", r.result, r.names)

ApplyBytevectorCopy ==
    /\ call.fn = "none" /\ Len(call.args) = 5 /\ IsValues(call.args)
    /\ LET r == BytevectorCopy(call.args)
       IN Called("bytevector-copy!", r.result, r.after)

InitLib ==
    /\ runner = RunnerIdle
    /\ nextId = 1
    /\ interned = {}
    /\ lastOp = NoOp
    /\ vm = VmIdle
    /\ native = <<>>
    /\ run = RunIdle
    /\ scm = ScmIdle
    /\ \/ /\ symbols = <<>>
          /\ call \in {NewCall(a) : a \in LibInputs}
       \/ /\ symbols \in SymbolTables
          /\ call \in {NewCall(a) : a \in PrintEnvInputs}

NextLib ==
    \/ ApplyEq
    \/ ApplyEqual
    \/ ApplyUnify
    \/ ApplyMakeBytevector
    \/ ApplyBytevectorFill
    \/ ApplyBytevectorU8Ref
    \/ ApplyBytevectorS8Ref
    \/ ApplyStringLength
    \/ ApplySubstring
    \/ ApplyPrintEnv
    \/ ApplyBytevectorCopy

SpecLib == InitLib /\ [][NextLib]_vars

BothByteVectors ==
    /\ Len(call.args) = 2
    /\ call.args[1].t = "bytevector"
    /\ call.args[2].t = "bytevector"

\* C14: eq? on bytevectors is identity.  a.Eq(b) is true exactly when a
\* and b are the same bytevector object; every bytevector, empty or not,
\* is eq? to itself.
C14_EqIsIdentity ==
    (call.fn = "Eq" /\ BothByteVectors) =>
        call.result = Ok(Boolean(call.args[1].ref = call.args[2].ref))

StringsOrByteVectors ==
    /\ Len(call.args) = 2
    /\ \A i \in 1..2 : call.args[i].t \in {"string", "bytevector"}

\* C15: equality refinement on strings and bytevectors of any mix.
\* a.Eq(b) implies a.Equal(b); a.Equal(a) holds; a.Equal(b) is b.Equal(a).
C15_EqRefinesEqual ==
    StringsOrByteVectors =>
        LET a == call.args[1]
            b == call.args[2]
        IN /\ (call.fn = "Eq" /\ call.result = Ok(Boolean(TRUE)))
                 => Equal(a, b)
           /\ call.fn = "Equal" =>
                 /\ call.result = Ok(Boolean(Equal(b, a)))
                 /\ a = b => call.result = Ok(Boolean(TRUE))

\* C15 witness: two distinct bytevectors of the same two bytes are Equal,
\* and not Eq.
C15_Witness ==
    /\ call.fn = "Equal"
    /\ call.args = <<ByteVector(1, <<1, 200>>), ByteVector(2, <<1, 200>>)>>
    /\ call.result = Ok(Boolean(TRUE))
    /\ ~Eq(call.args[1], call.args[2])

\* The supertype tree: the parent of every enum but any.
Parent ==
    [e \in Enums \ {"any"} |->
        CASE e = "int" -> "#eint"
          [] e = "float" -> "#efloat"
          [] e \in {"#eint", "#efloat"} -> "number"
          [] OTHER -> "any"]

RECURSIVE Ancestors(_)
Ancestors(e) ==
    IF e = "any" THEN {"any"} ELSE {e} \cup Ancestors(Parent[e])

\* c is the least common ancestor of a and b: a common ancestor that
\* every common ancestor is an ancestor of.
IsLeastCommonAncestor(c, a, b) ==
    /\ c \in Ancestors(a) \cap Ancestors(b)
    /\ Ancestors(a) \cap Ancestors(b) \subseteq Ancestors(c)

\* C16: Unify(a, b) returns the least common ancestor of a and b in the
\* supertype tree that Super defines; Unify(a, b) = Unify(b, a),
\* Unify(a, a) = a and Unify(a, any) = any.
C16_UnifyLeastCommonAncestor ==
    call.fn = "Unify" =>
        LET a == call.args[1].e
            b == call.args[2].e
        IN /\ call.result.ok
           /\ a # "any" => Super(a) = Parent[a]
           /\ Super("any") = "any"
           /\ IsLeastCommonAncestor(call.result.value.e, a, b)
           /\ call.result.value.e = Unify(b, a)
           /\ a = b => call.result.value.e = a
           /\ b = "any" => call.result.value.e = "any"

\* C16 witness: int and float unify to number.
C16_Witness ==
    /\ call.fn = "Unify"
    /\ call.args = <<Enum("int"), Enum("float")>>
    /\ call.result = Ok(Enum("number"))

\* The builtin the last DefineBuiltin registered: the one of that name
\* whose native function the symbol now holds.
Registered ==
    {b \in Builtins :
        /\ b.Name = lastOp.name
        /\ b.Return # "nil"
        /\ b.Name \in DOMAIN symbols
        /\ symbols[b.Name].Global.t = "lambda"
        /\ symbols[b.Name].Global.Native = b.Native}

NativeLambdaOf(name, b) ==
    /\ name \in DOMAIN symbols
    /\ FlagDefined \in symbols[name].Flags
    /\ LET g == symbols[name].Global
           fixed == {i \in DOMAIN b.Args : ParseKind(b.Args[i]) = Fixed}
           rest == {i \in DOMAIN b.Args : ParseKind(b.Args[i]) = Rest}
       IN /\ g.t = "lambda"
          /\ g.Native = b.Native /\ g.Native # ""
          /\ g.Min = Cardinality(fixed)
          /\ g.Max = IF rest # {} THEN MaxInt ELSE Len(b.Args)
          /\ 0 <= g.Min /\ g.Min <= g.Max

\* C17: after DefineBuiltin(b) the symbol b.Name is defined and bound to
\* a native lambda whose minimum is the number of Fixed arguments and whose
\* maximum is the number of arguments, or MaxInt with a rest argument;
\* every alias is defined and bound to a native lambda of the same arity
\* and native function.
C17_BuiltinArity ==
    lastOp.op = "DefineBuiltin" =>
        /\ Registered # {}
        /\ \A b \in Registered :
              /\ NativeLambdaOf(b.Name, b)
              /\ \A i \in DOMAIN b.Aliases : NativeLambdaOf(b.Aliases[i], b)

\* C17 witness: builtin b, one fixed and one optional rest argument, with
\* its alias c.
C17_Witness ==
    /\ lastOp.op = "DefineBuiltin"
    /\ lastOp.name = "b"
    /\ symbols["b"].Global = Lambda("b", 1, MaxInt, "nb")
    /\ symbols["c"].Global = Lambda("c", 1, MaxInt, "nb")

\* The fill argument of a call of make-bytevector or bytevector-fill whose
\* other argument is accepted.
FillCall ==
    \/ /\ call.fn = "make-bytevector"
       /\ Len(call.args) = 2
       /\ call.args[1].t = "num" /\ call.args[1].n >= 0
    \/ /\ call.fn = "bytevector-fill"
       /\ call.args[1].t = "bytevector"

FillAccepted(f) == f.t = "num" /\ -128 <= f.n /\ f.n <= 255

\* Every element of v reads back as u through bytevector-u8-ref, and as s
\* through bytevector-s8-ref when s is given.
ReadsBack(v, f) ==
    \A k \in 0..(Len(v.bytes) - 1) :
        /\ BytevectorU8Ref(<<v, Number(k)>>)
              = Ok(Number(IF f < 0 THEN f + 256 ELSE f))
        /\ f <= 127 => BytevectorS8Ref(<<v, Number(k)>>) = Ok(Number(f))

\* C18: make-bytevector and bytevector-fill accept a fill f exactly when
\* -128 <= f <= 255; every element then reads back as f mod 256 through
\* bytevector-u8-ref and as f through bytevector-s8-ref for f <= 127; any
\* other fill is an error, and bytevector-fill leaves the bytevector
\* unchanged.
C18_FillRange ==
    FillCall =>
        LET f == call.args[2] IN
        /\ call.result.ok <=> FillAccepted(f)
        /\ ~call.result.panic
        /\ call.result.ok =>
              /\ call.result.value.t = "bytevector"
              /\ ReadsBack(call.result.value, f.n)
        /\ call.fn = "make-bytevector" /\ call.result.ok =>
              Len(call.result.value.bytes) = call.args[1].n
        /\ call.fn = "bytevector-fill" =>
              /\ call.result.ok =>
                    /\ call.out = call.result.value
                    /\ call.out.ref = call.args[1].ref
                    /\ Len(call.out.bytes) = Len(call.args[1].bytes)
              /\ ~call.result.ok => call.out = call.args[1]

\* C18 witness: bytevector-fill with -1 sets both bytes to 255.
C18_Witness ==
    /\ call.fn = "bytevector-fill"
    /\ call.args = <<ByteVector(1, <<1, 200>>), Number(-1)>>
    /\ call.result = Ok(ByteVector(1, <<255, 255>>))
    /\ BytevectorS8Ref(<<call.out, Number(1)>>) = Ok(Number(-1))

\* A call of substring on a string with two integer indices.
SubstringCall ==
    /\ call.fn = "substring"
    /\ call.args[1].t = "string"
    /\ call.args[2].t = "num"
    /\ call.args[3].t = "num"

\* C19: (substring s start end) returns the characters start..end-1 of s
\* when 0 <= start <= end <= (string-length s), and an error, never a
\* panic, otherwise; string-length and the indices count characters.
C19_SubstringChars ==
    SubstringCall =>
        LET s == call.args[1]
            start == call.args[2].n
            end == call.args[3].n
            chars == DecodeRunes(s.bytes)
        IN /\ StringLength(<<s>>) = Ok(Number(Len(chars)))
           /\ IF 0 <= start /\ start <= end /\ end <= Len(chars)
              THEN call.result
                     = Ok(String(EncodeRunes(SubSeq(chars, start + 1, end))))
              ELSE ~call.result.ok /\ ~call.result.panic

\* The part of C19 that holds: strings of one-byte characters.
C19_SubstringAscii ==
    (SubstringCall /\ \A i \in DOMAIN call.args[1].bytes :
                         call.args[1].bytes[i] < 128)
        => C19_SubstringChars

Listed == {call.out[i] : i \in DOMAIN call.out}

HasFilter(v) == \E i \in DOMAIN call.args : call.args[i] = v

\* C20: print-env with no filter lists every symbol that has a global
\* value, lambda or not; with the filter lambda it lists only lambdas, and
\* native or scheme narrow them to native or Scheme-defined lambdas.
C20_PrintEnvFilters ==
    (call.fn = "print-env" /\ call.result.ok) =>
        /\ \A i, j \in DOMAIN call.out :
              i < j => NameRank(call.out[i]) < NameRank(call.out[j])
        /\ call.args = <<>> =>
              Listed = {k \in DOMAIN symbols : symbols[k].Global # Nil}
        /\ HasFilter(KwLambda) =>
              Listed =
                {k \in DOMAIN symbols :
                   /\ symbols[k].Global.t = "lambda"
                   /\ \/ /\ ~HasFilter(Identifier("native"))
                         /\ ~HasFilter(Identifier("scheme"))
                      \/ /\ HasFilter(Identifier("native"))
                         /\ symbols[k].Global.Native # ""
                      \/ /\ HasFilter(Identifier("scheme"))
                         /\ symbols[k].Global.Native = ""}

\* The part of C20 that holds: the calls with a filter.
C20_PrintEnvWithFilter == call.args # <<>> => C20_PrintEnvFilters

\* C21: a Global instruction on a symbol that has no global definition
\* fails with an error and loads nothing into accu.  The symbol read by the
\* first instruction of the first Execute has never been defined.
C21_UndefinedGlobalFails ==
    [][(/\ StepGlobal
        /\ vm.execs = 1 /\ vm.pc = 0
        /\ symbols[Fetched.Sym].Global = Nil)
          => (vm'.state = "error" /\ vm'.accu = vm.accu)]_vars

\* Execute has returned, with a value or with an error.
Returned == vm.state \in {"done", "error"} /\ vm.execs > 0

\* C27: whenever Execute returns, with a value or with an error, the stack
\* depth and fp are what they were when Execute was called.
C27_ExecuteRestoresStack ==
    Returned => (Len(vm.stack) = vm.entry.sp /\ vm.fp = vm.entry.fp)

\* The part of C27 that holds: a Halt met with no frame pushed by PushF
\* still open.
C27_HaltAtEntryFrame ==
    [][(StepHalt /\ vm.fp = vm.entry.sp /\ vm'.state = "done")
          => (Len(vm'.stack) = vm.entry.sp /\ vm'.fp = vm.entry.fp)]_vars

\* C28: each Execute begins at the first instruction of its code, and a
\* second Execute of code that ends in Halt never reads an instruction
\* index past the end of the code.
C28_ExecuteStartsAtZero ==
    /\ [][ExecuteStart => vm'.pc = 0]_vars
    /\ []((/\ vm.state = "running"
           /\ vm.execs >= 2
           /\ vm.code[Len(vm.code)].Op = "halt")
             => vm.pc < Len(vm.code))

(***************************************************************************)
(* Lowering on its own: Bytecode applied to an AST, the second pass that   *)
(* compiles the bodies of the lambda table, and AST.Equal applied to a     *)
(* pair of ASTs.                                                           *)
(***************************************************************************)

\* The second pass: each entry of the lambda table, in order, has its body
\* lowered and ended with Return; lambdas in the body extend the table.
RECURSIVE CompileLambdas(_, _)
\* The body of entry i has been lowered to b: its Return, then the next
\* entry.
CompileReturn(b, i) ==
    IF b.err THEN b
    ELSE CompileLambdas(addInstr(b, "return", Nil, 0, 0), i + 1)

CompileLambdas(c, i) ==
    IF i > Len(c.lambdas) THEN c
    ELSE CompileReturn(Bytecode(ASTSequence(c.lambdas[i].Body), c), i)

RECURSIVE Concat(_)
Concat(seqs) == IF seqs = <<>> THEN <<>> ELSE Head(seqs) \o Concat(Tail(seqs))

CondChoiceNodes(choice) ==
    (IF choice.Cond # NoAST THEN <<choice.Cond>> ELSE <<>>)
    \o (IF choice.Func # NoAST THEN <<choice.Func>> ELSE choice.Exprs)

\* The sub-nodes whose Bytecode the Bytecode of a node calls, in order.
SubNodes(ast) ==
    CASE ast.kind = "call" -> <<ast.Func>> \o ast.Args
      [] ast.kind = "if" ->
            <<ast.Cond, ast.True>>
            \o (IF ast.False # NoAST THEN <<ast.False>> ELSE <<>>)
      [] ast.kind \in {"and", "or"} -> ast.Exprs
      [] ast.kind = "cond" ->
            Concat([i \in DOMAIN ast.Choices |->
                       CondChoiceNodes(ast.Choices[i])])
      [] ast.kind = "case" ->
            <<ast.Expr>>
            \o Concat([i \in DOMAIN ast.Choices |-> ast.Choices[i].Exprs])
      [] ast.kind = "let" ->
            [i \in DOMAIN ast.Bindings |-> ast.Bindings[i].Init] \o ast.Body
      [] ast.kind = "sequence" -> ast.Items
      [] ast.kind = "apply" -> <<ast.Lambda, ast.Args>>
      [] OTHER -> <<>>

\* Lambda expressions: names are given by position, so that an expression
\* is known by its name.
MaxLambdas == 2

TopNames == <<"f", "g", "h">>

ChildName(name, j) ==
    CASE name = "f" /\ j = 1 -> "fa"
      [] name = "f" /\ j = 2 -> "fb"
      [] name = "g" /\ j = 1 -> "ga"
      [] name = "g" /\ j = 2 -> "gb"
      [] name = "h" /\ j = 1 -> "ha"
      [] name = "h" /\ j = 2 -> "hb"
      [] name = "fa" -> "faa"
      [] name = "ga" -> "gaa"
      [] name = "ha" -> "haa"
      [] OTHER -> "leaf"

LeafBody == <<ASTConstant(Number(1))>>

\* The body of a lambda: a constant; one nested lambda; two nested
\* lambdas as arguments of a call; a nested lambda that nests another.
LambdaShapes == 0..3

LambdaBody(name, shape) ==
    CASE shape = 0 -> LeafBody
      [] shape = 1 ->
            <<ASTLambda(ChildName(name, 1), LeafBody, FALSE, FALSE)>>
      [] shape = 2 ->
            <<ASTCall(ASTIdentifier("pack", NoBinding), EnvFrame(1),
                      <<ASTLambda(ChildName(name, 1), LeafBody, TRUE, FALSE),
                        ASTLambda(ChildName(name, 2), LeafBody, FALSE, FALSE)>>,
                      FALSE)>>
      [] shape = 3 ->
            <<ASTLambda(ChildName(name, 1),
                        <<ASTLambda(ChildName(ChildName(name, 1), 1),
                                    LeafBody, FALSE, FALSE)>>,
                        FALSE, FALSE)>>

LambdaSeqs ==
    UNION {{[i \in 1..n |->
               ASTLambda(TopNames[i], LambdaBody(TopNames[i], shape[i]),
                         FALSE, def[i])] :
              shape \in [1..n -> LambdaShapes], def \in [1..n -> BOOLEAN]} :
           n \in 1..MaxLambdas}

LambdaInputs ==
    {ASTSequence(q) : q \in LambdaSeqs} \cup
    {ASTCall(ASTIdentifier("pack", NoBinding), EnvFrame(1), q, FALSE) :
        q \in LambdaSeqs}

\* The cond and case forms whose scope is captured.
CapturedInputs ==
    {[a EXCEPT !.Captures = TRUE] : a \in CondInputs \cup CaseInputs}

\* Every node kind with a sub-node that fails to lower.
Leaf == ASTConstant(Number(1))

FailingInputs ==
    {ASTCall(ASTFailing, EnvFrame(1), <<>>, FALSE),
     ASTCall(ASTIdentifier("pack", NoBinding), EnvFrame(1),
             <<Leaf, ASTFailing>>, FALSE),
     ASTIf(Leaf, ASTFailing, NoAST),
     ASTIf(Leaf, Leaf, ASTFailing),
     ASTAnd(<<Leaf, ASTFailing>>),
     ASTOr(<<ASTFailing, Leaf>>),
     ASTCond(<<ASTCondChoice(ASTFailing, NoAST, NoFrame, NoFrame,
                             <<Leaf>>)>>, FALSE, FALSE),
     ASTCond(<<ASTCondChoice(Leaf, ASTFailing, EnvFrame(0), EnvFrame(2),
                             <<>>)>>, FALSE, FALSE),
     ASTCond(<<ASTCondChoice(NoAST, NoAST, NoFrame, NoFrame,
                             <<Leaf, ASTFailing>>)>>, FALSE, FALSE),
     ASTCase(<<ASTCaseChoice(<<>>, <<Leaf>>)>>, EnvFrame(0), EnvFrame(2),
             ASTFailing, FALSE, FALSE),
     ASTCase(<<ASTCaseChoice(<<Number(1)>>, <<ASTFailing>>)>>, EnvFrame(0),
             EnvFrame(2), Leaf, FALSE, FALSE),
     ASTLet(FALSE, FALSE,
            <<ASTLetBinding(EnvBinding(TypeStack, 0, 0), ASTFailing)>>,
            <<Leaf>>),
     ASTLet(FALSE, FALSE, <<>>, <<ASTFailing>>),
     ASTSequence(<<Leaf, ASTFailing, Leaf>>),
     ASTSequence(<<ASTCall(ASTFailing, EnvFrame(1), <<>>, FALSE)>>),
     ASTApply(ASTFailing, Leaf, FALSE),
     ASTApply(ASTIdentifier("pack", NoBinding), ASTFailing, FALSE),
     ASTApply(ASTIdentifier("pack", NoBinding), Leaf, FALSE)}

LowerInputs ==
    Inputs \cup CapturedInputs \cup LambdaInputs \cup FailingInputs

\* Bytecode of the AST with a new compiler: the compiler after the call.
ApplyBytecode ==
    /\ call.fn = "none" /\ Len(call.args) = 1
    /\ call' = [call EXCEPT
                  !.fn = "Bytecode",
                  !.result = Bytecode(call.args[1],
                                      NewCompiler(symbols, nextId))]
    /\ symbols' = call'.result.symbols
    /\ nextId' = call'.result.nextId
    /\ UNCHANGED <<interned, lastOp, vm, native, run, scm, runner>>

\* The second pass over the lambda table of a lowering that succeeded.
ApplyCompileLambdas ==
    /\ call.fn = "Bytecode" /\ ~call.result.err
    /\ call' = [call EXCEPT !.fn = "CompileLambdas",
                            !.result = CompileLambdas(call.result, 1)]
    /\ symbols' = call'.result.symbols
    /\ nextId' = call'.result.nextId
    /\ UNCHANGED <<interned, lastOp, vm, native, run, scm, runner>>

(***************************************************************************)
(* AST.Equal.  The result is "true", "false", or "panic" when the call     *)
(* dereferences a nil AST or indexes a slice out of range.                 *)
(***************************************************************************)
\* x && y, where y is evaluated only if x is true.
AndThen(x, y) == IF x = "true" THEN y ELSE x

BoolResult(b) == IF b THEN "true" ELSE "false"

RECURSIVE ASTEqual(_, _)
RECURSIVE EqualExprsLoop(_, _, _)
RECURSIVE CondChoicesLoop(_, _, _)
RECURSIVE CaseChoicesLoop(_, _, _)
RECURSIVE CaseDatumsEqualLoop(_, _, _)

\* for idx, expr := range exprs { if !expr.Equal(others[idx]) ... }
EqualExprsLoop(exprs, others, idx) ==
    IF idx > Len(exprs) THEN "true"
    ELSE IF idx > Len(others) THEN "panic"
    ELSE LET r == ASTEqual(exprs[idx], others[idx]) IN
         IF r # "true" THEN r ELSE EqualExprsLoop(exprs, others, idx + 1)

\* ASTCondChoice.Equal
CondChoiceEqual(c, o) ==
    IF Len(c.Exprs) # Len(o.Exprs) THEN "false"
    ELSE AndThen(EqualExprsLoop(c.Exprs, o.Exprs, 1),
                 AndThen(ASTEqual(c.Cond, o.Cond), ASTEqual(c.Func, o.Func)))

CondChoicesLoop(choices, others, idx) ==
    IF idx > Len(choices) THEN "true"
    ELSE LET r == CondChoiceEqual(choices[idx], others[idx]) IN
         IF r # "true" THEN r ELSE CondChoicesLoop(choices, others, idx + 1)

\* for idx, datum := range c.Datums { if !datum.Equal(c.Datums[idx]) ... }
CaseDatumsEqualLoop(c, o, idx) ==
    IF idx > Len(c.Datums) THEN "true"
    ELSE IF c.Datums[idx] # c.Datums[idx] THEN "false"
    ELSE CaseDatumsEqualLoop(c, o, idx + 1)

\* ASTCaseChoice.Equal
CaseChoiceEqual(c, o) ==
    IF Len(c.Datums) # Len(o.Datums) THEN "false"
    ELSE AndThen(CaseDatumsEqualLoop(c, o, 1),
                 IF Len(c.Exprs) # Len(o.Exprs) THEN "false"
                 ELSE EqualExprsLoop(c.Exprs, o.Exprs, 1))

CaseChoicesLoop(choices, others, idx) ==
    IF idx > Len(choices) THEN "true"
    ELSE LET r == CaseChoiceEqual(choices[idx], others[idx]) IN
         IF r # "true" THEN r ELSE CaseChoicesLoop(choices, others, idx + 1)

\* ast.Equal(o): a method call on a nil AST panics; an o of another
\* dynamic type, nil included, fails the type assertion.
ASTEqual(ast, o) ==
    IF ast.kind = "nil" THEN "panic"
    ELSE IF o.kind # ast.kind THEN "false"
    ELSE CASE ast.kind = "constant" -> BoolResult(ast.Value = o.Value)
           [] ast.kind = "identifier" ->
                 IF ast.Name # o.Name THEN "false"
                 ELSE IF ast.Binding = NoBinding /\ o.Binding # NoBinding
                 THEN "false"
                 ELSE IF ast.Binding # NoBinding /\ o.Binding = NoBinding
                 THEN "false"
                 ELSE "true"
           [] ast.kind \in {"and", "or"} ->
                 EqualExprsLoop(ast.Exprs, o.Exprs, 1)
           [] ast.kind = "cond" ->
                 IF Len(ast.Choices) # Len(o.Choices) THEN "false"
                 ELSE AndThen(CondChoicesLoop(ast.Choices, o.Choices, 1),
                              BoolResult(ast.Tail = o.Tail
                                         /\ ast.Captures = o.Captures))
           [] ast.kind = "case" ->
                 IF Len(ast.Choices) # Len(o.Choices) THEN "false"
                 ELSE AndThen(CaseChoicesLoop(ast.Choices, o.Choices, 1),
                        AndThen(ASTEqual(ast.Expr, o.Expr),
                                BoolResult(ast.Tail = o.Tail
                                           /\ ast.Captures = o.Captures)))

\* The ASTs that Equal is applied to.
MaxEq == 2

EqLeaves ==
    {ASTConstant(Number(1)), ASTConstant(Number(2)),
     ASTIdentifier("x", NoBinding),
     ASTIdentifier("x", EnvBinding(TypeStack, 0, 0))}

EqConsts == {ASTConstant(Number(1)), ASTConstant(Number(2))}

EqExprs == UNION {[1..n -> EqConsts] : n \in 0..MaxEq}

EqCondChoices ==
    {ASTCondChoice(NoAST, NoAST, NoFrame, NoFrame, <<ASTConstant(Number(1))>>),
     ASTCondChoice(ASTConstant(Number(1)), NoAST, NoFrame, NoFrame,
                   <<ASTConstant(Number(1))>>)}
    \cup {ASTCondChoice(k, ASTIdentifier("pack", NoBinding), EnvFrame(0),
                        EnvFrame(2), <<>>) : k \in EqConsts}

EqDatums == UNION {[1..n -> {Number(1), Number(2)}] : n \in 0..MaxEq}

EqASTs ==
    EqLeaves
    \cup {ASTAnd(q) : q \in EqExprs} \cup {ASTOr(q) : q \in EqExprs}
    \cup {ASTCond(q, FALSE, FALSE) :
            q \in UNION {[1..n -> EqCondChoices] : n \in 1..MaxEq}}
    \cup {ASTCase(<<ASTCaseChoice(d, <<ASTConstant(Number(1))>>)>>,
                  EnvFrame(0), EnvFrame(2), k, FALSE, FALSE) :
            d \in EqDatums, k \in EqConsts}

\* a.Equal(b) and, for the comparison, b.Equal(a).
ApplyASTEqual ==
    /\ call.fn = "none" /\ Len(call.args) = 2
    /\ call' = [call EXCEPT
                  !.fn = "Equal",
                  !.result = [equal |-> ASTEqual(call.args[1], call.args[2]),
                              reverse |-> ASTEqual(call.args[2], call.args[1])]]
    /\ UNCHANGED <<symbols, nextId, interned, lastOp, vm, native, run, scm, runner>>

InitLower ==
    /\ runner = RunnerIdle
    /\ scm = ScmIdle
    /\ symbols = RunSymbols.symbols
    /\ nextId = RunSymbols.nextId
    /\ interned = {}
    /\ lastOp = NoOp
    /\ vm = VmIdle
    /\ native = <<>>
    /\ run = RunIdle
    /\ \/ call \in {NewCall(<<ast>>) : ast \in LowerInputs}
       \/ call \in {NewCall(<<a, b>>) : a \in EqASTs, b \in EqASTs}

NextLower ==
    \/ ApplyBytecode
    \/ ApplyCompileLambdas
    \/ ApplyASTEqual

SpecLower == InitLower /\ [][NextLower]_vars

\* A lowering that has returned, with or without the second pass.
Lowered == call.fn \in {"Bytecode", "CompileLambdas"}

LoweredOk == Lowered /\ ~call.result.err

(***************************************************************************)
(* C22: scopes.  The code is read from its start with the scopes that are  *)
(* open: PushS opens one, PushF marks a call frame, Call closes the frame  *)
(* with the argument scope above it, PopS closes the scope on top.         *)
(***************************************************************************)
FrameMark == [n |-> -1, captures |-> -1]

RECURSIVE DropFrame(_)
DropFrame(open) ==
    IF open = <<>> THEN <<>>
    ELSE IF open[Len(open)] = FrameMark THEN SubSeq(open, 1, Len(open) - 1)
    ELSE DropFrame(SubSeq(open, 1, Len(open) - 1))

\* TRUE iff every PopS of code[i..] closes a scope that a PushS opened
\* with the same n and the same captures flag.
RECURSIVE PopSMatch(_, _, _)
PopSMatch(code, i, open) ==
    IF i > Len(code) THEN TRUE
    ELSE LET instr == code[i] IN
         CASE instr.Op = "pushs" ->
                 PopSMatch(code, i + 1,
                           Append(open, [n |-> instr.I, captures |-> instr.J]))
           [] instr.Op = "pushf" -> PopSMatch(code, i + 1, Append(open, FrameMark))
           [] instr.Op = "call" -> PopSMatch(code, i + 1, DropFrame(open))
           [] instr.Op = "pops" ->
                 /\ open # <<>>
                 /\ open[Len(open)] = [n |-> instr.I, captures |-> instr.J]
                 /\ PopSMatch(code, i + 1, SubSeq(open, 1, Len(open) - 1))
           [] OTHER -> PopSMatch(code, i + 1, open)

\* C22: every PopS the compiler emits matches the PushS that opened the
\* scope it closes, in the slot count and in the captures flag, for let,
\* for the value scope of a cond => clause and for the key scope of case,
\* whatever the node's Captures flag.
C22_PopSMatchesPushS ==
    (call.fn = "Bytecode" /\ ~call.result.err)
        => PopSMatch(call.result.code, 1, <<>>)

\* What does hold: the scopes of a let match, and so do those of cond and
\* case when the node does not capture.
C22_PopSMatchesUncaptured ==
    (/\ call.fn = "Bytecode" /\ ~call.result.err
     /\ \/ call.args[1].kind = "let"
        \/ call.args[1].kind \in {"cond", "case"} /\ ~call.args[1].Captures)
        => PopSMatch(call.result.code, 1, <<>>)

(***************************************************************************)
(* C23: the lambda table.                                                  *)
(***************************************************************************)
\* The lambda expressions that the Bytecode of ast lowers, in the order of
\* lowering; the bodies of lambdas are not entered.
RECURSIVE LambdasOf(_)
LambdasOf(ast) ==
    IF ast.kind = "lambda" THEN <<ast>>
    ELSE LET sub == SubNodes(ast) IN
         Concat([i \in DOMAIN sub |-> LambdasOf(sub[i])])

LambdasOfBody(body) == Concat([i \in DOMAIN body |-> LambdasOf(body[i])])

\* The lambda expressions in the order the two passes reach them: those
\* of the top-level expression, then those of each body in table order.
RECURSIVE LambdasInOrder(_, _)
LambdasInOrder(q, i) ==
    IF i > Len(q) THEN q
    ELSE LambdasInOrder(q \o LambdasOfBody(q[i].Body), i + 1)

TableEntry(ast) ==
    [Name |-> ast.Name, Body |-> ast.Body, Captures |-> ast.Captures]

ExpectedTable(root, passes) ==
    LET q == IF passes = 2 THEN LambdasInOrder(LambdasOf(root), 1)
             ELSE LambdasOf(root)
    IN [i \in DOMAIN q |-> TableEntry(q[i])]

\* The positions of the Lambda instructions, in code order.
LambdaPositions(code) ==
    SelectSeq([i \in DOMAIN code |-> i], LAMBDA i : code[i].Op = "lambda")

\* C23: every Lambda instruction carries the index of the lambda-table
\* entry created from the same lambda expression.  The k-th Lambda
\* instruction emitted has operand k - 1, so that no two share an index
\* and every index is a position of the table; the table holds the lambda
\* expressions in the order they are reached, those nested in bodies
\* included; and the Define that follows the Lambda of a definition names
\* the table entry that the Lambda's operand indexes.
C23_LambdaIndex ==
    LoweredOk =>
      LET code == call.result.code
          table == call.result.lambdas
          pos == LambdaPositions(code)
      IN /\ Len(pos) = Len(table)
         /\ \A k \in DOMAIN pos : code[pos[k]].I = k - 1
         /\ table = ExpectedTable(call.args[1],
                                  IF call.fn = "Bytecode" THEN 1 ELSE 2)
         /\ \A k \in DOMAIN pos :
               (pos[k] < Len(code) /\ code[pos[k] + 1].Op = "define")
                  => code[pos[k] + 1].Sym = table[code[pos[k]].I + 1].Name

\* Both passes have run on two lambdas, the first of which nests a lambda
\* that nests another: four table entries, four Lambda instructions.
C23_Witness ==
    /\ call.fn = "CompileLambdas" /\ ~call.result.err
    /\ Len(call.result.lambdas) = 4
    /\ call.result.lambdas[4].Name = "faa"
    /\ \E i \in DOMAIN call.result.code :
          /\ call.result.code[i].Op = "lambda"
          /\ call.result.code[i].I = 3

(***************************************************************************)
(* C24: labels.                                                            *)
(***************************************************************************)
Branches == {"if", "ifnot", "jmp"}

\* The positions of the Label instructions of code with the given id.
LabelsOf(code, id) ==
    {j \in DOMAIN code : code[j].Op = "label" /\ code[j].I = id}

C24_EveryForm ==
    \A kind \in {"if", "and", "or", "cond", "case"} :
       \E ast \in LowerInputs :
          /\ ast.kind = kind
          /\ LET c == Bytecode(ast, NewCompiler(symbols, nextId)) IN
             /\ ~c.err
             /\ \E i \in DOMAIN c.code : c.code[i].Op \in Branches

(***************************************************************************)
(* C25: errors of sub-nodes.                                               *)
(***************************************************************************)
\* TRUE iff the Bytecode of a sub-node of ast returns an error.
SubNodeFails(ast) ==
    LET sub == SubNodes(ast) IN
    \E i \in DOMAIN sub :
       Bytecode(sub[i],
                NewCompiler(RunSymbols.symbols, RunSymbols.nextId)).err

\* C25: compile errors propagate.  For every node kind, Bytecode returns
\* an error whenever the Bytecode of one of its sub-nodes returns an
\* error, a call whose function expression fails to lower included.
C25_ErrorsPropagate ==
    (call.fn = "Bytecode" /\ SubNodeFails(call.args[1])) => call.result.err

\* What does hold: the errors of every sub-node but the function
\* expression of a call propagate.
C25_ErrorsPropagateButFunc ==
    (/\ call.fn = "Bytecode"
     /\ SubNodeFails(call.args[1])
     /\ ~(call.args[1].kind = "call" /\ call.args[1].Func = ASTFailing))
        => call.result.err

(***************************************************************************)
(* C26: AST.Equal.                                                         *)
(***************************************************************************)
\* TRUE iff a and b have the same node kind, the same number of
\* sub-expressions, clauses and datums, and pairwise equal sub-expressions
\* and datums.
RECURSIVE Same(_, _)
SameSeq(a, b) ==
    /\ Len(a) = Len(b)
    /\ \A i \in DOMAIN a : Same(a[i], b[i])

Same(a, b) ==
    /\ a.kind = b.kind
    /\ CASE a.kind = "constant" -> a.Value = b.Value
         [] a.kind = "identifier" ->
               /\ a.Name = b.Name
               /\ (a.Binding = NoBinding) <=> (b.Binding = NoBinding)
         [] a.kind \in {"and", "or"} -> SameSeq(a.Exprs, b.Exprs)
         [] a.kind = "cond" ->
               /\ Len(a.Choices) = Len(b.Choices)
               /\ \A i \in DOMAIN a.Choices :
                     /\ Same(a.Choices[i].Cond, b.Choices[i].Cond)
                     /\ Same(a.Choices[i].Func, b.Choices[i].Func)
                     /\ SameSeq(a.Choices[i].Exprs, b.Choices[i].Exprs)
         [] a.kind = "case" ->
               /\ Same(a.Expr, b.Expr)
               /\ Len(a.Choices) = Len(b.Choices)
               /\ \A i \in DOMAIN a.Choices :
                     /\ a.Choices[i].Datums = b.Choices[i].Datums
                     /\ SameSeq(a.Choices[i].Exprs, b.Choices[i].Exprs)
         [] OTHER -> TRUE

\* C26: AST.Equal is sound and symmetric and never panics.  a.Equal(b)
\* returns true only if a and b have the same kind, the same numbers of
\* sub-expressions, clauses and datums and pairwise equal sub-expressions
\* and datums, and then b.Equal(a) is true as well; no call panics, for
\* and/or forms of different lengths and for cond clauses that are else
\* clauses or have no => function included.
C26_EqualSoundSymmetric ==
    call.fn = "Equal" =>
       /\ call.result.equal # "panic"
       /\ call.result.equal = "true" =>
             /\ Same(call.args[1], call.args[2])
             /\ call.result.reverse = "true"

\* What does hold: on constants, identifiers, and cond forms all of whose
\* clauses have a => function, Equal is sound and symmetric and does not
\* panic.
ArrowOnly(a) ==
    \/ a.kind \in {"constant", "identifier"}
    \/ /\ a.kind = "cond"
       /\ \A i \in DOMAIN a.Choices : a.Choices[i].Func # NoAST

C26_EqualOnArrowClauses ==
    (call.fn = "Equal" /\ ArrowOnly(call.args[1]) /\ ArrowOnly(call.args[2]))
       => /\ call.result.equal # "panic"
          /\ call.result.equal = "true" =>
                /\ Same(call.args[1], call.args[2])
                /\ call.result.reverse = "true"

\* The three ways it fails: an and of one expression equals an and of two
\* that starts with it, and the reverse call panics; two case clauses
\* with different datums are equal; a cond clause without => panics.
C26_PrefixEqual ==
    /\ call.fn = "Equal"
    /\ call.args[1].kind = "and" /\ call.args[2].kind = "and"
    /\ Len(call.args[1].Exprs) < Len(call.args[2].Exprs)
    /\ call.result.equal = "true" /\ call.result.reverse = "panic"

C26_DatumsIgnored ==
    /\ call.fn = "Equal"
    /\ call.args[1].kind = "case" /\ call.args[2].kind = "case"
    /\ call.args[1].Choices[1].Datums # call.args[2].Choices[1].Datums
    /\ call.result.equal = "true"

C26_PlainClausePanics ==
    /\ call.fn = "Equal"
    /\ call.args[1].kind = "cond" /\ call.args[1] = call.args[2]
    /\ call.args[1].Choices[1].Func = NoAST
    /\ call.result.equal = "panic"

(***************************************************************************)
(* C29: bytevector-copy!.                                                  *)
(***************************************************************************)
\* A call of bytevector-copy! on two bytevectors with non-negative
\* source-start, target-start and k.
CopyCall ==
    /\ call.fn = "bytevector-copy!"
    /\ call.args[1].t = "bytevector" /\ call.args[3].t = "bytevector"
    /\ \A i \in {2, 4, 5} : call.args[i].t = "num" /\ call.args[i].n >= 0

\* Both ranges lie inside their bytevectors.
CopyInRange ==
    /\ call.args[2].n + call.args[5].n <= Len(call.args[1].bytes)
    /\ call.args[4].n + call.args[5].n <= Len(call.args[3].bytes)

\* The target after the copy: the k bytes of the source, no other byte
\* changed.
Copied ==
    LET source == call.args[1].bytes
        target == call.args[3].bytes
        sourceStart == call.args[2].n
        targetStart == call.args[4].n
        k == call.args[5].n
    IN /\ Len(call.out.bytes) = Len(target)
       /\ \A i \in DOMAIN target :
             call.out.bytes[i] =
                IF i - 1 >= targetStart /\ i - 1 < targetStart + k
                THEN source[sourceStart + (i - 1 - targetStart) + 1]
                ELSE target[i]

CopyCorrect ==
    IF CopyInRange THEN call.result.ok /\ Copied
    ELSE /\ ~call.result.ok /\ ~call.result.panic
         /\ call.out = call.args[3]

\* C29: bytevector-copy! with non-negative source-start, target-start and
\* k copies exactly the k bytes source[source-start .. source-start+k) to
\* target[target-start ..) and changes no other byte when both ranges lie
\* inside their bytevectors, and otherwise returns an error with the
\* target unchanged; it never indexes outside either bytevector, also when
\* source-start+k or target-start+k overflows the integer range.
C29_CopyInsideOrError == CopyCall => CopyCorrect

\* What does hold: the same, for the calls in which neither sum exceeds
\* the largest integer.
C29_CopyWithoutOverflow ==
    (/\ CopyCall
     /\ call.args[2].n + call.args[5].n <= MaxInt64
     /\ call.args[4].n + call.args[5].n <= MaxInt64) => CopyCorrect

\* The overflow: both sums wrap around to a negative number, both range
\* checks pass, and the slice expression panics.
C29_OverflowPanics ==
    /\ CopyCall
    /\ call.args[2].n + call.args[5].n > MaxInt64
    /\ call.args[4].n + call.args[5].n > MaxInt64
    /\ call.result.panic

(***************************************************************************)
(* The test runner of testsuite/test.scm.  (test name) returns the closure *)
(* runner over the counters count, success and fail.  A test is a          *)
(* procedure that is handed a reporter; it is given by the commands it     *)
(* sends to the reporter before it returns.                                *)
(***************************************************************************)
MaxCmds == 2

MaxTests == 2

MaxReports == 2

ReporterCmds == {"error", "other"}

Tests == UNION {[1..n -> ReporterCmds] : n \in 0..MaxReports}

TestLists == UNION {[1..n -> Tests] : n \in 0..MaxTests}

\* (letrec ((count 0) (success 0) (fail 0) ...) runner).  Besides the
\* counters: where the call in progress stands, the tests iter has left,
\* the commands the running test has yet to send, the value the last
\* command returned, and the history of the commands.
NewRunner ==
    [count |-> 0, success |-> 0, fail |-> 0,
     state |-> "idle", tests |-> <<>>, reports |-> <<>>, failed |-> FALSE,
     last |-> "none", result |-> Nil,
     cmds |-> 0, errorCmds |-> 0, passed |-> 0, failing |-> 0,
     errorReports |-> 0]

\* The tests of a list that send 'error to the reporter.
Failing(tests) ==
    Cardinality({i \in DOMAIN tests :
                    \E j \in DOMAIN tests[i] : tests[i][j] = "error"})

\* A command has returned.
CommandReturned(r, cmd, result) ==
    [r EXCEPT !.state = "idle", !.last = cmd, !.result = result,
              !.cmds = @ + 1]

\* (runner 'run category tests...): iter is entered with the tests.
RunnerRun ==
    /\ runner.state = "idle" /\ runner.cmds < MaxCmds
    /\ \E tests \in TestLists :
          runner' = [runner EXCEPT !.state = "iter", !.tests = tests,
                                   !.passed = @ + Len(tests),
                                   !.failing = @ + Failing(tests)]
    /\ UNCHANGED <<symbols, nextId, interned, lastOp, vm, native, run, scm,
                   call>>

\* iter: #t when no test is left; otherwise count is incremented and
\* run-test calls the first test with a reporter, failed being #f.
Iter ==
    /\ runner.state = "iter"
    /\ runner' =
          IF runner.tests = <<>>
          THEN CommandReturned(runner, "run", Boolean(TRUE))
          ELSE [runner EXCEPT !.count = @ + 1, !.state = "test",
                              !.failed = FALSE,
                              !.reports = Head(runner.tests)]
    /\ UNCHANGED <<symbols, nextId, interned, lastOp, vm, native, run, scm,
                   call>>

\* The reporter: (cond ((eq? cmd 'error) (set! failed #t)) (else ...)).
ReporterMutantCount(r, cmd) ==
    IF cmd = "error" THEN [r EXCEPT !.failed = TRUE, !.fail = @ + 1] ELSE r

Reporter(r, cmd) == IF cmd = "error" THEN [r EXCEPT !.failed = TRUE] ELSE r

\* The running test sends its next command to the reporter.
Report ==
    /\ runner.state = "test" /\ runner.reports # <<>>
    /\ LET cmd == Head(runner.reports) IN
       runner' = [Reporter(runner, cmd) EXCEPT
                     !.reports = Tail(runner.reports),
                     !.errorReports = @ + (IF cmd = "error" THEN 1 ELSE 0)]
    /\ UNCHANGED <<symbols, nextId, interned, lastOp, vm, native, run, scm,
                   call>>

\* The test returns: run-test increments fail or success, and iter goes
\* on with the rest of the tests.
TestReturns ==
    /\ runner.state = "test" /\ runner.reports = <<>>
    /\ runner' = [runner EXCEPT
                    !.fail = IF runner.failed THEN @ + 1 ELSE @,
                    !.success = IF runner.failed THEN @ ELSE @ + 1,
                    !.state = "iter",
                    !.tests = Tail(runner.tests)]
    /\ UNCHANGED <<symbols, nextId, interned, lastOp, vm, native, run, scm,
                   call>>

\* (runner 'error): fail is incremented.
RunnerError ==
    /\ runner.state = "idle" /\ runner.cmds < MaxCmds
    /\ runner' = [CommandReturned(runner, "error", Nil) EXCEPT
                     !.fail = @ + 1, !.errorCmds = @ + 1]
    /\ UNCHANGED <<symbols, nextId, interned, lastOp, vm, native, run, scm,
                   call>>

\* (runner 'stats): the counters are displayed.
RunnerStats ==
    /\ runner.state = "idle" /\ runner.cmds < MaxCmds
    /\ runner' = CommandReturned(runner, "stats", Nil)
    /\ UNCHANGED <<symbols, nextId, interned, lastOp, vm, native, run, scm,
                   call>>

\* (runner 'status): (= fail 0).
RunnerStatus ==
    /\ runner.state = "idle" /\ runner.cmds < MaxCmds
    /\ runner' = CommandReturned(runner, "status", Boolean(runner.fail = 0))
    /\ UNCHANGED <<symbols, nextId, interned, lastOp, vm, native, run, scm,
                   call>>

\* Any other command: the usage is displayed.
RunnerUsage ==
    /\ runner.state = "idle" /\ runner.cmds < MaxCmds
    /\ runner' = CommandReturned(runner, "usage", Nil)
    /\ UNCHANGED <<symbols, nextId, interned, lastOp, vm, native, run, scm,
                   call>>

InitRunner ==
    /\ runner = NewRunner
    /\ scm = ScmIdle
    /\ call = CallIdle
    /\ symbols = <<>>
    /\ nextId = 1
    /\ interned = {}
    /\ lastOp = NoOp
    /\ vm = VmIdle
    /\ native = <<>>
    /\ run = RunIdle

NextRunner ==
    \/ RunnerRun
    \/ Iter
    \/ Report
    \/ TestReturns
    \/ RunnerError
    \/ RunnerStats
    \/ RunnerStatus
    \/ RunnerUsage

SpecRunner == InitRunner /\ [][NextRunner]_vars

C30_ErrorCommand ==
    /\ runner.state = "idle" /\ runner.errorCmds > 0
    /\ runner.count # runner.success + runner.fail

====
